---- MODULE Spec2Model ----
(***************************************************************************)
(* A model of the Liqo Terraform provider (liqotech/terraform-provider-    *)
(* liqo): the peering status poll (waitForPeeringCompletion,               *)
(* checkPeeringStatus, evaluatePeerStatus), the Kubernetes client          *)
(* configuration (CheckParameters / configureKubernetesClient) and the     *)
(* Create / Read / Update / Delete handlers of the peer, offload and       *)
(* generate resources.                                                     *)
(*                                                                         *)
(* Go strings that the code inspects with strings.Contains are sequences   *)
(* of one-character strings, so that a substring test is computed and not  *)
(* assumed.  Strings that are only compared for equality are TLA+ strings. *)
(***************************************************************************)
EXTENDS Integers, Sequences, FiniteSets, TLC

VARIABLES
    \* ---- waitForPeeringCompletion / checkPeeringStatus ----
    pc,              \* position of the call: check, remote_cmd, local_cmd, select, done
    phase,           \* "initial" (lines 671-678) or "loop" (lines 680-708)
    now,             \* seconds since the call started
    timeout,         \* the timeout argument, in seconds
    cancelled,       \* the caller's context was cancelled before the deadline
    tickPending,     \* ticker.C holds a tick (the channel has a buffer of one)
    plan,            \* the peerResourceModel fields the status check reads
    localKubeconfig, \* the localKubeconfig argument
    remoteClusterID, \* the ID step 1 of the running check obtained
    remoteArgs,      \* argument list of the last liqoctl info run on the remote cluster
    localArgs,       \* argument list of the last liqoctl info run on the local cluster
    lastQuery,       \* what the most recent checkPeeringStatus call returned
    nQueries,        \* number of checkPeeringStatus calls made so far
    result,          \* what waitForPeeringCompletion returned
    \* ---- evaluatePeerStatus on its own ----
    peer,            \* a PeerInfo
    peerStatus,      \* evaluatePeerStatus(peer), once computed
    \* ---- provider configuration ----
    config,          \* the liqoProviderModel handed to the resources
    envKubeConfigPaths, \* the environment variable KubeConfigPaths
    homeOk,          \* the home directory of the user can be determined
    cfgResult,       \* what CheckParameters returned, once called
    \* ---- the resources and the cluster they manage ----
    local,           \* identity, token and auth endpoint of the local cluster
    fcs,             \* the ForeignCluster objects of the cluster
    secrets,         \* the authentication token secrets of the cluster
    nsoffs,          \* the NamespaceOffloading objects of the cluster
    tfstate,         \* Terraform state of the peer, offload and generate resource
    resp,            \* the response of the last handler call
    nOps,            \* number of handler calls made so far
    \* ---- the DefaultValue plan modifiers ----
    modifier,        \* the modifier of an attribute: its kind and its DefaultValue
    attrConfig,      \* the value the configuration gives the attribute
    attrPlans        \* the planned values: the incoming one, then one per application

waitVars == <<pc, phase, now, timeout, cancelled, tickPending, plan, localKubeconfig,
              remoteClusterID, remoteArgs, localArgs, lastQuery, nQueries, result>>
evalVars == <<peer, peerStatus>>
cfgVars == <<config, envKubeConfigPaths, homeOk, cfgResult>>
resVars == <<local, fcs, secrets, nsoffs, tfstate, resp, nOps>>
modVars == <<modifier, attrConfig, attrPlans>>
vars == <<waitVars, evalVars, cfgVars, resVars, modVars>>
\* the variables the status poll leaves alone
nonWaitVars == <<evalVars, cfgVars, resVars, modVars>>
\* the variables evaluatePeerStatus leaves alone
nonEvalVars == <<waitVars, cfgVars, resVars, modVars>>
\* the variables CheckParameters leaves alone
nonCfgVars == <<waitVars, evalVars, resVars, modVars>>
\* the variables the resource handlers leave alone
nonResVars == <<waitVars, evalVars, cfgVars, modVars>>
\* the variables the plan modifiers leave alone
nonModVars == <<waitVars, evalVars, cfgVars, resVars>>

----------------------------------------------------------------------------
(* Bounds of the model *)

\* largest timeout argument tried, in seconds
MaxTimeout == 25
\* longest peer list a liqoctl info output holds
MaxPeers == 2

----------------------------------------------------------------------------
(* Strings *)

S_Unhealthy == <<"U", "n", "h", "e", "a", "l", "t", "h", "y">>
S_Disabled == <<"D", "i", "s", "a", "b", "l", "e", "d">>
S_Healthy == <<"H", "e", "a", "l", "t", "h", "y">>
S_failed == <<"f", "a", "i", "l", "e", "d">>
S_error == <<"e", "r", "r", "o", "r">>
M_getRemoteFailed == <<"f", "a", "i", "l", "e", "d", " ", "t", "o", " ", "g", "e", "t", " ", "r", "e", "m", "o", "t", "e", " ", "c", "l", "u", "s", "t", "e", "r", " ", "I", "D", ":", " ">>
M_remoteIDEmpty == <<"r", "e", "m", "o", "t", "e", " ", "c", "l", "u", "s", "t", "e", "r", " ", "I", "D", " ", "i", "s", " ", "e", "m", "p", "t", "y">>
M_remoteCmdFailed == <<"l", "i", "q", "o", "c", "t", "l", " ", "i", "n", "f", "o", " ", "c", "o", "m", "m", "a", "n", "d", " ", "f", "a", "i", "l", "e", "d", " ", "o", "n", " ", "r", "e", "m", "o", "t", "e", " ", "c", "l", "u", "s", "t", "e", "r", ":", " ">>
M_Output == <<"\n", "O", "u", "t", "p", "u", "t", ":", " ">>
M_remoteYAML == <<"f", "a", "i", "l", "e", "d", " ", "t", "o", " ", "p", "a", "r", "s", "e", " ", "r", "e", "m", "o", "t", "e", " ", "c", "l", "u", "s", "t", "e", "r", " ", "i", "n", "f", "o", " ", "Y", "A", "M", "L", ":", " ">>
M_localCmdFailed == <<"l", "i", "q", "o", "c", "t", "l", " ", "i", "n", "f", "o", " ", "c", "o", "m", "m", "a", "n", "d", " ", "f", "a", "i", "l", "e", "d", " ", "o", "n", " ", "l", "o", "c", "a", "l", " ", "c", "l", "u", "s", "t", "e", "r", ":", " ">>
M_localYAML == <<"f", "a", "i", "l", "e", "d", " ", "t", "o", " ", "p", "a", "r", "s", "e", " ", "l", "o", "c", "a", "l", " ", "c", "l", "u", "s", "t", "e", "r", " ", "i", "n", "f", "o", " ", "Y", "A", "M", "L", ":", " ">>
M_remoteCluster == <<"r", "e", "m", "o", "t", "e", " ", "c", "l", "u", "s", "t", "e", "r", " ">>
M_notFound == <<" ", "n", "o", "t", " ", "f", "o", "u", "n", "d", " ", "i", "n", " ", "l", "o", "c", "a", "l", " ", "c", "l", "u", "s", "t", "e", "r", "'", "s", " ", "p", "e", "e", "r", " ", "l", "i", "s", "t">>
M_peeringFailed == <<"p", "e", "e", "r", "i", "n", "g", " ", "f", "a", "i", "l", "e", "d">>
M_timeout == <<"t", "i", "m", "e", "o", "u", "t", " ", "w", "a", "i", "t", "i", "n", "g", " ", "f", "o", "r", " ", "p", "e", "e", "r", "i", "n", "g", " ", "c", "o", "m", "p", "l", "e", "t", "i", "o", "n", " ", "a", "f", "t", "e", "r", " ">>

\* strings.Contains(s, substr)
Contains(s, substr) ==
    \E i \in 0..(Len(s) - Len(substr)) : SubSeq(s, i + 1, i + Len(substr)) = substr

\* an error value: nil, or an error with its message
NilErr == [isNil |-> TRUE, msg |-> <<>>]
\* fmt.Errorf(...) with the formatted message msg
Errorf(msg) == [isNil |-> FALSE, msg |-> msg]

\* decimal digits of a natural number, as fmt prints it
RECURSIVE Itoa(_)
Itoa(n) ==
    LET d == <<"0", "1", "2", "3", "4", "5", "6", "7", "8", "9">>[(n % 10) + 1]
    IN  IF n < 10 THEN <<d>> ELSE Itoa(n \div 10) \o <<d>>

\* %v of a time.Duration of d whole seconds: 0s, 25s, 1m5s, 1h0m5s
FormatDuration(d) ==
    IF d < 60 THEN Itoa(d) \o <<"s">>
    ELSE IF d < 3600 THEN Itoa(d \div 60) \o <<"m">> \o Itoa(d % 60) \o <<"s">>
    ELSE Itoa(d \div 3600) \o <<"h">> \o Itoa((d % 3600) \div 60) \o <<"m">>
             \o Itoa(d % 60) \o <<"s">>

----------------------------------------------------------------------------
(* types.String of the Terraform plugin framework *)

StringNull == [state |-> "null", value |-> ""]
StringUnknown == [state |-> "unknown", value |-> ""]
StringValue(s) == [state |-> "known", value |-> s]
IsNull(v) == v.state = "null"
IsUnknown(v) == v.state = "unknown"
ValueString(v) == IF v.state = "known" THEN v.value ELSE ""

----------------------------------------------------------------------------
(* Status values *)

statusNoPeers == "no_peers"
statusReady == "ready"
statusError == "error"
statusEstablishing == "establishing"

----------------------------------------------------------------------------
(* liqoctl info: what a run of the external command can produce *)

ID_milan == <<"m", "i", "l", "a", "n">>
ID_errors == <<"e", "r", "r", "o", "r", "s">>
\* cluster IDs in use; a cluster ID is any string its administrator chose
ClusterIDs == {ID_milan, ID_errors}

E_exit == <<"e", "x", "i", "t", " ", "s", "t", "a", "t", "u", "s", " ", "1">>
E_killed == <<"s", "i", "g", "n", "a", "l", ":", " ", "k", "i", "l", "l", "e", "d">>
E_deadline == <<"c", "o", "n", "t", "e", "x", "t", " ", "d", "e", "a", "d", "l", "i", "n", "e", " ", "e", "x", "c", "e", "e", "d", "e", "d">>
E_canceled == <<"c", "o", "n", "t", "e", "x", "t", " ", "c", "a", "n", "c", "e", "l", "e", "d">>
E_yaml == <<"y", "a", "m", "l", ":", " ", "d", "i", "d", " ", "n", "o", "t", " ", "f", "i", "n", "d", " ", "e", "x", "p", "e", "c", "t", "e", "d", " ", "k", "e", "y">>
O_boom == <<"b", "o", "o", "m">>

\* values of a module status field of liqoctl info
StatusValues == {<<>>, S_Healthy, S_Unhealthy, S_Disabled,
                 S_Healthy \o S_Disabled, S_Unhealthy \o S_Healthy}

\* PeerInfo (the role field is parsed and never read)
PeerInfo(id, auth, net, off) ==
    [ClusterID |-> id, AuthenticationStatus |-> auth,
     NetworkingStatus |-> net, OffloadingStatus |-> off]

\* every PeerInfo over the status values
PeerInfos == {PeerInfo(id, a, n, o) : id \in ClusterIDs, a \in StatusValues,
                                        n \in StatusValues, o \in StatusValues}

\* the peers the polled cluster reports while a peering is being established
SamplePeers == {PeerInfo(id, t[1], t[2], t[3]) : id \in ClusterIDs,
                  t \in {<<S_Healthy, S_Healthy, S_Healthy>>,
                         <<S_Healthy, S_Unhealthy, S_Disabled>>,
                         <<S_Disabled, S_Disabled, S_Disabled>>}}

\* peer lists of at most MaxPeers peers
PeerLists == UNION {[1..n -> SamplePeers] : n \in 0..MaxPeers}

\* cmd.CombinedOutput() failed: err.Error() and the captured output
CmdFailed(text, output) == [kind |-> "cmdErr", errText |-> text, output |-> output]
\* yaml.Unmarshal failed
YamlFailed == [kind |-> "yamlErr", errText |-> E_yaml]
\* the output parsed: local.clusterID and peerings.peers
InfoParsed(id, peers) == [kind |-> "ok", ClusterID |-> id, Peers |-> peers]

\* outcomes of liqoctl info on the remote cluster, the command having started
RemoteOutcomes(killed) ==
    {CmdFailed(IF killed THEN E_killed ELSE E_exit, o) : o \in {<<>>, O_boom}}
      \cup {YamlFailed}
      \cup {InfoParsed(id, <<>>) : id \in ClusterIDs \cup {<<>>}}

\* outcomes of liqoctl info on the local cluster, the command having started
LocalOutcomes(killed) ==
    {CmdFailed(IF killed THEN E_killed ELSE E_exit, o) : o \in {<<>>, O_boom}}
      \cup {YamlFailed}
      \cup {InfoParsed(ID_milan, ps) : ps \in PeerLists}

----------------------------------------------------------------------------
(* checkPeeringStatus and its helpers *)

\* infoArgs with the test for an empty namespace left out
infoArgs_noEmptyTest(kubeconfig, namespace) ==
    <<"info">>
      \o (IF kubeconfig # "" THEN <<"--kubeconfig", kubeconfig>> ELSE <<>>)
      \o (IF ~IsNull(namespace)
            THEN <<"--namespace", ValueString(namespace)>> ELSE <<>>)
      \o <<"-o", "yaml">>

\* the args slice built for liqoctl info
infoArgs(kubeconfig, namespace) ==
    <<"info">>
      \o (IF kubeconfig # "" THEN <<"--kubeconfig", kubeconfig>> ELSE <<>>)
      \o (IF ~IsNull(namespace) /\ ValueString(namespace) # ""
            THEN <<"--namespace", ValueString(namespace)>> ELSE <<>>)
      \o <<"-o", "yaml">>

\* getRemoteClusterID, from the outcome of its command
getRemoteClusterID(out) ==
    IF out.kind = "cmdErr"
      THEN [id |-> <<>>,
            err |-> Errorf(M_remoteCmdFailed \o out.errText \o M_Output \o out.output)]
    ELSE IF out.kind = "yamlErr"
      THEN [id |-> <<>>, err |-> Errorf(M_remoteYAML \o out.errText)]
    ELSE [id |-> out.ClusterID, err |-> NilErr]

\* countStatus with the Healthy case placed before the Disabled case
countStatus_healthyFirst(status) ==
    IF Contains(status, S_Unhealthy) THEN "nUnhealthy"
    ELSE IF Contains(status, S_Healthy) THEN "nHealthy"
    ELSE IF Contains(status, S_Disabled) THEN "nDisabled"
    ELSE "none"

\* the switch of countStatus: the first case that matches
countStatus(status) ==
    IF Contains(status, S_Unhealthy) THEN "nUnhealthy"
    ELSE IF Contains(status, S_Disabled) THEN "nDisabled"
    ELSE IF Contains(status, S_Healthy) THEN "nHealthy"
    ELSE "none"

evaluatePeerStatus(p) ==
    LET counted == <<countStatus(p.AuthenticationStatus),
                     countStatus(p.NetworkingStatus),
                     countStatus(p.OffloadingStatus)>>
        nHealthy == Cardinality({i \in 1..3 : counted[i] = "nHealthy"})
        nUnhealthy == Cardinality({i \in 1..3 : counted[i] = "nUnhealthy"})
    IN  IF nUnhealthy > 0 THEN statusEstablishing
        ELSE IF nHealthy > 0 THEN statusReady
        ELSE statusEstablishing

\* targetPeer without the break: the last peer with the ID is kept
targetPeer_last(peers, id) ==
    IF \E i \in 1..Len(peers) : peers[i].ClusterID = id
      THEN CHOOSE i \in 1..Len(peers) :
             /\ peers[i].ClusterID = id
             /\ \A j \in (i + 1)..Len(peers) : peers[j].ClusterID # id
      ELSE 0

\* step 3 of checkPeeringStatus: index of the first peer with the ID, 0 for nil
targetPeer(peers, id) ==
    IF \E i \in 1..Len(peers) : peers[i].ClusterID = id
      THEN CHOOSE i \in 1..Len(peers) :
             /\ peers[i].ClusterID = id
             /\ \A j \in 1..(i - 1) : peers[j].ClusterID # id
      ELSE 0

\* step 1 of checkPeeringStatus, from the outcome of the remote command:
\* what it returns early, or that it goes on to step 2
checkRemoteStep(out) ==
    LET r == getRemoteClusterID(out)
    IN  IF ~r.err.isNil
          THEN [returns |-> TRUE, status |-> statusError, id |-> r.id,
                err |-> Errorf(M_getRemoteFailed \o r.err.msg)]
        ELSE IF r.id = <<>>
          THEN [returns |-> TRUE, status |-> statusError, id |-> r.id,
                err |-> Errorf(M_remoteIDEmpty)]
        ELSE [returns |-> FALSE, status |-> "", id |-> r.id, err |-> NilErr]

\* steps 2 to 4 of checkPeeringStatus, from the outcome of the local command
checkLocalStep(id, out) ==
    IF out.kind = "cmdErr"
      THEN [status |-> statusError,
            err |-> Errorf(M_localCmdFailed \o out.errText \o M_Output \o out.output)]
    ELSE IF out.kind = "yamlErr"
      THEN [status |-> statusError, err |-> Errorf(M_localYAML \o out.errText)]
    ELSE LET t == targetPeer(out.Peers, id)
         IN  IF t = 0
               THEN [status |-> statusNoPeers,
                     err |-> Errorf(M_remoteCluster \o id \o M_notFound)]
               ELSE [status |-> evaluatePeerStatus(out.Peers[t]), err |-> NilErr]

----------------------------------------------------------------------------
(* waitForPeeringCompletion *)

\* the period of the ticker, in seconds
TickerPeriod == 10
\* the clock of the model stops one ticker period after the largest deadline
MaxTime == MaxTimeout + TickerPeriod

\* no checkPeeringStatus call has returned yet, and nothing has been returned
NoQuery == [status |-> "", err |-> NilErr]
NoResult == [status |-> "", err |-> NilErr]

\* ctxDone with the caller's cancellation left out
ctxDone_deadlineOnly == now >= timeout
\* timeoutCtx.Done() is closed: the deadline has passed or the caller cancelled
ctxDone == cancelled \/ now >= timeout
\* timeoutCtx.Err().Error() once the context is done
ctxErrText == IF cancelled THEN E_canceled ELSE E_deadline

\* waitStep with every error of a polled check taken as temporary
waitStep_retryAll(ph, status, err) ==
    IF ph = "initial"
      THEN IF ~err.isNil
             THEN [pc |-> "done", result |-> [status |-> status, err |-> err]]
           ELSE IF status = statusReady
             THEN [pc |-> "done", result |-> [status |-> status, err |-> NilErr]]
           ELSE [pc |-> "select", result |-> NoResult]
      ELSE IF ~err.isNil
             THEN [pc |-> "select", result |-> NoResult]
           ELSE IF status = "ready"
             THEN [pc |-> "done", result |-> [status |-> status, err |-> NilErr]]
           ELSE IF status = "error"
             THEN [pc |-> "done",
                   result |-> [status |-> status, err |-> Errorf(M_peeringFailed)]]
           ELSE [pc |-> "select", result |-> NoResult]

\* waitStep without the return on a ready initial check
waitStep_noInitialReady(ph, status, err) ==
    IF ph = "initial"
      THEN IF ~err.isNil
             THEN [pc |-> "done", result |-> [status |-> status, err |-> err]]
           ELSE [pc |-> "select", result |-> NoResult]
      ELSE IF ~err.isNil
             THEN IF Contains(err.msg, S_failed) \/ Contains(err.msg, S_error)
                    THEN [pc |-> "done", result |-> [status |-> statusError, err |-> err]]
                    ELSE [pc |-> "select", result |-> NoResult]
           ELSE IF status = "ready"
             THEN [pc |-> "done", result |-> [status |-> status, err |-> NilErr]]
           ELSE IF status = "error"
             THEN [pc |-> "done",
                   result |-> [status |-> status, err |-> Errorf(M_peeringFailed)]]
           ELSE [pc |-> "select", result |-> NoResult]

\* waitStep looking for "failed" only in the error of a polled check
waitStep_failedOnly(ph, status, err) ==
    IF ph = "initial"
      THEN IF ~err.isNil
             THEN [pc |-> "done", result |-> [status |-> status, err |-> err]]
           ELSE IF status = statusReady
             THEN [pc |-> "done", result |-> [status |-> status, err |-> NilErr]]
           ELSE [pc |-> "select", result |-> NoResult]
      ELSE IF ~err.isNil
             THEN IF Contains(err.msg, S_failed)
                    THEN [pc |-> "done", result |-> [status |-> statusError, err |-> err]]
                    ELSE [pc |-> "select", result |-> NoResult]
           ELSE IF status = "ready"
             THEN [pc |-> "done", result |-> [status |-> status, err |-> NilErr]]
           ELSE IF status = "error"
             THEN [pc |-> "done",
                   result |-> [status |-> status, err |-> Errorf(M_peeringFailed)]]
           ELSE [pc |-> "select", result |-> NoResult]

\* what the code after a checkPeeringStatus call does with (status, err):
\* return (pc "done") or go (back) to the select
waitStep(ph, status, err) ==
    IF ph = "initial"
      THEN IF ~err.isNil
             THEN [pc |-> "done", result |-> [status |-> status, err |-> err]]
           ELSE IF status = statusReady
             THEN [pc |-> "done", result |-> [status |-> status, err |-> NilErr]]
           ELSE [pc |-> "select", result |-> NoResult]
      ELSE IF ~err.isNil
             THEN IF Contains(err.msg, S_failed) \/ Contains(err.msg, S_error)
                    THEN [pc |-> "done", result |-> [status |-> statusError, err |-> err]]
                    ELSE [pc |-> "select", result |-> NoResult]
           ELSE IF status = "ready"
             THEN [pc |-> "done", result |-> [status |-> status, err |-> NilErr]]
           ELSE IF status = "error"
             THEN [pc |-> "done",
                   result |-> [status |-> status, err |-> Errorf(M_peeringFailed)]]
           ELSE [pc |-> "select", result |-> NoResult]

\* checkPeeringStatus returns (status, err) to waitForPeeringCompletion
QueryReturns(status, err) ==
    LET w == waitStep(phase, status, err)
    IN  /\ pc' = w.pc
        /\ result' = w.result
        /\ phase' = "loop"
        /\ lastQuery' = [status |-> status, err |-> err]
        /\ remoteClusterID' = <<>>

\* the local command ended with outcome out
LocalOutcome(id, out) ==
    LET l == checkLocalStep(id, out)
    IN  QueryReturns(l.status, l.err)

\* the remote command ended with outcome out: step 1 returns, or step 2 builds
\* the local argument list and starts the local command, which fails at once
\* when the context is already done
RemoteOutcome(out) ==
    LET r == checkRemoteStep(out)
    IN  IF r.returns
          THEN QueryReturns(r.status, r.err) /\ UNCHANGED localArgs
          ELSE /\ localArgs' = infoArgs(localKubeconfig, plan.LiqoNamespace)
               /\ IF ctxDone
                    THEN LocalOutcome(r.id, CmdFailed(ctxErrText, <<>>))
                    ELSE /\ pc' = "local_cmd"
                         /\ remoteClusterID' = r.id
                         /\ UNCHANGED <<phase, lastQuery, result>>

\* checkPeeringStatus is called: the remote argument list is built and the
\* remote command started, which fails at once when the context is already done
StartCheck ==
    /\ pc = "check"
    /\ nQueries' = nQueries + 1
    /\ remoteArgs' = infoArgs(ValueString(plan.RemoteKubeconfig), plan.RemoteLiqoNamespace)
    /\ IF ctxDone
         THEN RemoteOutcome(CmdFailed(ctxErrText, <<>>))
         ELSE /\ pc' = "remote_cmd"
              /\ UNCHANGED <<phase, lastQuery, result, remoteClusterID, localArgs>>
    /\ UNCHANGED <<now, timeout, cancelled, tickPending, plan, localKubeconfig>>
    /\ UNCHANGED nonWaitVars

\* liqoctl info on the remote cluster ends (killed if the context is done)
RemoteCmdReturn ==
    /\ pc = "remote_cmd"
    /\ \E out \in RemoteOutcomes(ctxDone) : RemoteOutcome(out)
    /\ UNCHANGED <<now, timeout, cancelled, tickPending, plan, localKubeconfig,
                   remoteArgs, nQueries>>
    /\ UNCHANGED nonWaitVars

\* liqoctl info on the local cluster ends (killed if the context is done)
LocalCmdReturn ==
    /\ pc = "local_cmd"
    /\ \E out \in LocalOutcomes(ctxDone) : LocalOutcome(remoteClusterID, out)
    /\ UNCHANGED <<now, timeout, cancelled, tickPending, plan, localKubeconfig,
                   remoteArgs, localArgs, nQueries>>
    /\ UNCHANGED nonWaitVars

\* the select of the loop: one of its ready cases, chosen arbitrarily
Select ==
    /\ pc = "select"
    /\ \/ /\ ctxDone
          /\ pc' = "done"
          /\ result' = [status |-> "timeout",
                        err |-> Errorf(M_timeout \o FormatDuration(timeout))]
          /\ UNCHANGED tickPending
       \/ /\ tickPending
          /\ tickPending' = FALSE
          /\ pc' = "check"
          /\ UNCHANGED result
    /\ UNCHANGED <<phase, now, timeout, cancelled, plan, localKubeconfig,
                   remoteClusterID, remoteArgs, localArgs, lastQuery, nQueries>>
    /\ UNCHANGED nonWaitVars

\* the next instant at which the ticker fires or the deadline passes
NextEvent(t) ==
    LET tick == ((t \div TickerPeriod) + 1) * TickerPeriod
    IN  IF timeout > t /\ timeout < tick THEN timeout ELSE tick

\* time passes up to the next tick or the deadline; a tick is dropped when
\* the channel still holds one
Advance ==
    /\ pc # "done"
    /\ NextEvent(now) <= MaxTime
    /\ now' = NextEvent(now)
    /\ tickPending' = IF now' % TickerPeriod = 0 THEN TRUE ELSE tickPending
    /\ UNCHANGED <<pc, phase, timeout, cancelled, plan, localKubeconfig,
                   remoteClusterID, remoteArgs, localArgs, lastQuery, nQueries, result>>
    /\ UNCHANGED nonWaitVars

\* the caller cancels ctx before the deadline
Cancel ==
    /\ pc # "done"
    /\ ~cancelled
    /\ now < timeout
    /\ cancelled' = TRUE
    /\ UNCHANGED <<pc, phase, now, timeout, tickPending, plan, localKubeconfig,
                   remoteClusterID, remoteArgs, localArgs, lastQuery, nQueries, result>>
    /\ UNCHANGED nonWaitVars

\* evaluatePeerStatus is applied to the PeerInfo
Evaluate ==
    /\ peerStatus = ""
    /\ peerStatus' = evaluatePeerStatus(peer)
    /\ UNCHANGED peer
    /\ UNCHANGED nonEvalVars

----------------------------------------------------------------------------
(* Provider configuration: CheckParameters / configureKubernetesClient *)

P_home == <<"~", "/", ".", "k", "u", "b", "e", "/", "c", "o", "n", "f", "i", "g">>
P_abs == <<"/", "e", "t", "c", "/", "k", "u", "b", "e", ".", "y", "a", "m", "l">>
P_user == <<"~", "b", "o", "b", "/", "c", "o", "n", "f", "i", "g">>
P_second == <<"/", "s", "r", "v", "/", "s", "e", "c", "o", "n", "d", ".", "y", "a", "m", "l">>
HomeDir == <<"/", "h", "o", "m", "e", "/", "t", "f">>
EnvTwo == <<"/", "e", "n", "v", "/", "a", ".", "y", "a", "m", "l", ":", "/", "e", "n", "v", "/", "b", ".", "y", "a", "m", "l">>
H_hostport == <<"k", "8", "s", ".", "e", "x", "a", "m", "p", "l", "e", ":", "6", "4", "4", "3">>
H_url == <<"h", "t", "t", "p", ":", "/", "/", "k", "8", "s", ".", "e", "x", "a", "m", "p", "l", "e">>
S_schemeSep == <<":", "/", "/">>
S_https == <<"h", "t", "t", "p", "s", ":", "/", "/">>
S_http == <<"h", "t", "t", "p", ":", "/", "/">>
M_homeUser == <<"c", "a", "n", "n", "o", "t", " ", "e", "x", "p", "a", "n", "d", " ", "u", "s", "e", "r", "-", "s", "p", "e", "c", "i", "f", "i", "c", " ", "h", "o", "m", "e", " ", "d", "i", "r">>
M_homeUnset == <<"$", "H", "O", "M", "E", " ", "i", "s", " ", "n", "o", "t", " ", "d", "e", "f", "i", "n", "e", "d">>
M_hostEmpty == <<"h", "o", "s", "t", " ", "m", "u", "s", "t", " ", "b", "e", " ", "a", " ", "U", "R", "L", " ", "o", "r", " ", "a", " ", "h", "o", "s", "t", ":", "p", "o", "r", "t", " ", "p", "a", "i", "r">>

\* types.Bool of the Terraform plugin framework
BoolNull == [state |-> "null", value |-> FALSE]
BoolValue(b) == [state |-> "known", value |-> b]
ValueBool(v) == v.state = "known" /\ v.value

\* a types.String whose value is inspected character by character
CharsNull == [state |-> "null", value |-> <<>>]
ValueChars(v) == IF v.state = "known" THEN v.value ELSE <<>>

\* homedir.Expand(path); home tells whether homedir.Dir() succeeds
Expand(path, home) ==
    IF Len(path) = 0 THEN [path |-> path, err |-> NilErr]
    ELSE IF path[1] # "~" THEN [path |-> path, err |-> NilErr]
    ELSE IF Len(path) > 1 /\ path[2] # "/" /\ path[2] # "\\"
      THEN [path |-> <<>>, err |-> Errorf(M_homeUser)]
    ELSE IF ~home THEN [path |-> <<>>, err |-> Errorf(M_homeUnset)]
    ELSE LET joined == HomeDir \o SubSeq(path, 2, Len(path))
         IN  [path |-> IF Len(joined) > 1 /\ joined[Len(joined)] = "/"
                         THEN SubSeq(joined, 1, Len(joined) - 1) ELSE joined,
              err |-> NilErr]

\* strings.Split(s, sep) for a one-character separator
RECURSIVE Split(_, _)
Split(s, sep) ==
    IF \E i \in 1..Len(s) : s[i] = sep
      THEN LET i == CHOOSE k \in 1..Len(s) :
                      s[k] = sep /\ \A j \in 1..(k - 1) : s[j] # sep
           IN  <<SubSeq(s, 1, i - 1)>> \o Split(SubSeq(s, i + 1, Len(s)), sep)
      ELSE <<s>>

\* filepath.SplitList(path)
SplitList(path) == IF path = <<>> THEN <<>> ELSE Split(path, ":")

\* rest.DefaultServerURL(host, "", GroupVersion{}, defaultTLS): the URL as a string
DefaultServerURL(host, defaultTLS) ==
    IF host = <<>> THEN [url |-> <<>>, err |-> Errorf(M_hostEmpty)]
    ELSE IF \E i \in 2..(Len(host) - 3) : SubSeq(host, i, i + 2) = S_schemeSep
      THEN [url |-> host, err |-> NilErr]
    ELSE [url |-> (IF defaultTLS THEN S_https ELSE S_http) \o host, err |-> NilErr]

\* fmt's String() of a known types.String: the value in double quotes
QuotedString(v) == <<"\"">> \o v \o <<"\"">>

\* the clientcmdapi.ExecConfig built from the first exec block
execConfig(e) ==
    [isNil |-> FALSE,
     InteractiveMode |-> "IfAvailable",
     APIVersion |-> ValueString(e.APIVersion),
     Command |-> ValueString(e.Command),
     Args |-> [i \in 1..Len(e.Args) |-> ValueString(e.Args[i])],
     Env |-> {[Name |-> kv.k, Value |-> QuotedString(kv.v)] : kv \in e.Env}]

\* what configureKubernetesClient returns on an error
ConfigError(err) == [panic |-> FALSE, err |-> err, overrides |-> [isNil |-> TRUE],
                     loader |-> [isNil |-> TRUE]]

configureKubernetesClient(kubeConfig, env, home) ==
    LET configPaths ==
            IF ~IsNull(kubeConfig.KubeConfigPath)
              THEN <<ValueChars(kubeConfig.KubeConfigPath)>>
            ELSE IF Len(kubeConfig.KubeConfigPaths) > 0
              THEN [i \in 1..Len(kubeConfig.KubeConfigPaths) |->
                      ValueChars(kubeConfig.KubeConfigPaths[i])]
            ELSE IF env # <<>> THEN SplitList(env)
            ELSE <<>>
        expanded == [i \in 1..Len(configPaths) |-> Expand(configPaths[i], home)]
        failing == {i \in 1..Len(configPaths) : ~expanded[i].err.isNil}
        expandedPaths == [i \in 1..Len(configPaths) |-> expanded[i].path]
        loader == IF Len(configPaths) > 0
                    THEN IF Len(expandedPaths) = 1
                           THEN [isNil |-> FALSE, ExplicitPath |-> expandedPaths[1],
                                 Precedence |-> <<>>]
                           ELSE [isNil |-> FALSE, ExplicitPath |-> <<>>,
                                 Precedence |-> expandedPaths]
                    ELSE [isNil |-> FALSE, ExplicitPath |-> <<>>, Precedence |-> <<>>]
        ctxNotOk == IsNull(kubeConfig.KubeCtx)
        authInfoNotOk == IsNull(kubeConfig.KubeCtxAuthInfo)
        clusterNotOk == IsNull(kubeConfig.KubeCtxCluster)
        inPaths == Len(configPaths) > 0 /\ (ctxNotOk \/ authInfoNotOk \/ clusterNotOk)
        CurrentContext == IF inPaths /\ ctxNotOk
                            THEN ValueString(kubeConfig.KubeCtx) ELSE ""
        ContextAuthInfo == IF inPaths /\ authInfoNotOk
                             THEN ValueString(kubeConfig.KubeCtxAuthInfo) ELSE ""
        ContextCluster == IF inPaths /\ clusterNotOk
                            THEN ValueString(kubeConfig.KubeCtxCluster) ELSE ""
        InsecureSkipTLSVerify == IF ~IsNull(kubeConfig.KubeInsecure)
                                   THEN ~ValueBool(kubeConfig.KubeInsecure) ELSE FALSE
        CertificateAuthorityData == IF ~IsNull(kubeConfig.KubeClusterCaCertData)
                                      THEN ValueString(kubeConfig.KubeClusterCaCertData)
                                      ELSE ""
        ClientCertificateData == IF ~IsNull(kubeConfig.KubeClientCertData)
                                   THEN ValueString(kubeConfig.KubeClientCertData) ELSE ""
        hasCA == CertificateAuthorityData # ""
        hasCert == ClientCertificateData # ""
        defaultTLS == hasCA \/ hasCert \/ InsecureSkipTLSVerify
        host == DefaultServerURL(ValueChars(kubeConfig.KubeHost), defaultTLS)
        overrides ==
            [isNil |-> FALSE,
             CurrentContext |-> CurrentContext,
             Context |-> [AuthInfo |-> ContextAuthInfo, Cluster |-> ContextCluster],
             ClusterInfo |->
                [InsecureSkipTLSVerify |-> InsecureSkipTLSVerify,
                 CertificateAuthorityData |-> CertificateAuthorityData,
                 Server |-> IF ~IsNull(kubeConfig.KubeHost) THEN host.url ELSE <<>>],
             AuthInfo |->
                [ClientCertificateData |-> ClientCertificateData,
                 Username |-> IF ~IsNull(kubeConfig.KubeUser)
                                THEN ValueString(kubeConfig.KubeUser) ELSE "",
                 Password |-> IF ~IsNull(kubeConfig.KubePassword)
                                THEN ValueString(kubeConfig.KubePassword) ELSE "",
                 ClientKeyData |-> IF ~IsNull(kubeConfig.KubeClientKeyData)
                                     THEN ValueString(kubeConfig.KubeClientKeyData) ELSE "",
                 Token |-> IF ~IsNull(kubeConfig.KubeToken)
                             THEN ValueString(kubeConfig.KubeToken) ELSE "",
                 Exec |-> IF Len(kubeConfig.KubeExec) > 0
                            THEN execConfig(kubeConfig.KubeExec[1])
                            ELSE [isNil |-> TRUE]],
             ClusterDefaults |->
                [ProxyURL |-> IF ~IsNull(kubeConfig.KubeProxyURL)
                                THEN ValueString(kubeConfig.KubeProxyURL) ELSE ""]]
    IN  IF failing # {}
          THEN ConfigError(expanded[CHOOSE i \in failing : \A j \in failing : i <= j].err)
        ELSE IF ~IsNull(kubeConfig.KubeHost) /\ ~host.err.isNil
          THEN ConfigError(host.err)
        ELSE [panic |-> FALSE, err |-> NilErr, overrides |-> overrides, loader |-> loader]

\* CheckParameters(config); a config without a kubernetes block holds a nil
\* pointer, whose dereference panics
CheckParameters(cfg, env, home) ==
    IF cfg.Kubernetes.isNil
      THEN [panic |-> TRUE, err |-> NilErr, overrides |-> [isNil |-> TRUE],
            loader |-> [isNil |-> TRUE]]
      ELSE configureKubernetesClient(cfg.Kubernetes, env, home)

\* CheckParameters has not been called
NotCalled == [called |-> FALSE]

\* a resource handler calls CheckParameters with the provider configuration
CallCheckParameters ==
    /\ ~cfgResult.called
    /\ cfgResult' = [called |-> TRUE, got |-> CheckParameters(config, envKubeConfigPaths, homeOk)]
    /\ UNCHANGED <<config, envKubeConfigPaths, homeOk>>
    /\ UNCHANGED nonCfgVars

\* an exec block of the provider configuration
SampleExec == [APIVersion |-> StringValue("client.authentication.k8s.io/v1"),
               Command |-> StringValue("aws"),
               Args |-> <<StringValue("eks"), StringValue("get-token")>>,
               Env |-> {[k |-> "AWS_PROFILE", v |-> <<"d", "e", "v">>]}]

\* the kubernetes blocks tried
KubeConfs ==
    [isNil : {FALSE},
     KubeHost : {CharsNull, StringValue(<<>>), StringValue(H_hostport), StringValue(H_url)},
     KubeUser : {StringValue("admin")},
     KubePassword : {StringNull},
     KubeInsecure : {BoolNull, BoolValue(TRUE), BoolValue(FALSE)},
     KubeClientCertData : {StringNull},
     KubeClientKeyData : {StringNull},
     KubeClusterCaCertData : {StringNull, StringValue("CA-PEM")},
     KubeConfigPath : {CharsNull, StringValue(P_home), StringValue(P_user), StringValue(P_abs)},
     KubeConfigPaths : {<<>>, <<StringValue(P_abs), StringValue(P_second)>>},
     KubeCtx : {StringNull, StringValue("prod")},
     KubeCtxAuthInfo : {StringNull, StringValue("ops")},
     KubeCtxCluster : {StringNull, StringValue("edge")},
     KubeToken : {StringValue("token")},
     KubeProxyURL : {StringNull},
     KubeExec : {<<>>, <<SampleExec>>}]

\* the provider configuration of the other models: a kubeconfig in the home
\* directory
HomeConfig ==
    [Kubernetes |->
       [isNil |-> FALSE, KubeHost |-> CharsNull, KubeUser |-> StringNull,
        KubePassword |-> StringNull, KubeInsecure |-> BoolNull,
        KubeClientCertData |-> StringNull, KubeClientKeyData |-> StringNull,
        KubeClusterCaCertData |-> StringNull, KubeConfigPath |-> StringValue(P_home),
        KubeConfigPaths |-> <<>>, KubeCtx |-> StringNull, KubeCtxAuthInfo |-> StringNull,
        KubeCtxCluster |-> StringNull, KubeToken |-> StringNull,
        KubeProxyURL |-> StringNull, KubeExec |-> <<>>]]

----------------------------------------------------------------------------
(* The resources: Create, Read, Update and Delete of peer, offload, generate *)

\* how many handler calls one run makes
MaxOps == 3

\* errors of the Kubernetes API
NoErr == [isNil |-> TRUE, reason |-> "", msg |-> ""]
StatusError(reason, msg) == [isNil |-> FALSE, reason |-> reason, msg |-> msg]
IsNotFound(err) == ~err.isNil /\ err.reason = "NotFound"
IgnoreNotFound(err) == IF IsNotFound(err) THEN NoErr ELSE err
Forbidden == StatusError("Forbidden", "forbidden: access denied")
NotFound == StatusError("NotFound", "not found")

\* one request to the API server and the error it returned
Call(verb, kind, err) == [verb |-> verb, kind |-> kind, err |-> err]

\* diagnostics of a response
ErrorDiag(summary, detail) == [severity |-> "error", summary |-> summary, detail |-> detail]
HasError(diags) == \E i \in 1..Len(diags) : diags[i].severity = "error"
ConversionDiag == ErrorDiag("Value Conversion Error", "mismatch between struct and object")
UpdateDiag == ErrorDiag("Unable to Update Resource", "Update is not supported/permitted yet.")
CreateSummary == "Unable to Create Resource"
DeleteSummary == "Unable to Delete Resource"
M_clientCfg == "invalid configuration: no configuration has been provided"
M_samePeer == "The Cluster ID of the remote cluster is the same of that of the local cluster"
M_peeringExists == "a peering of another type already exists towards the remote cluster"

\* ForeignCluster spec values
PeeringTypeUnknown == ""
PeeringTypeOutOfBand == "OutOfBand"
PeeringTypeInBand == "InBand"
PeeringEnabledYes == "Yes"
PeeringEnabledNo == "No"
PeeringEnabledAuto == "Auto"
DefaultNamespaceOffloadingName == "offloading"

\* Terraform state of one resource
NullState == [isNull |-> TRUE]
StateOf(model) == [isNull |-> FALSE, model |-> model]

\* what a handler leaves: its diagnostics, its API calls, the cluster and the
\* resource's state in the response
Result(diags, calls, c, state) ==
    [crashed |-> FALSE, diags |-> diags, calls |-> calls, cluster |-> c, state |-> state]
Crash(c, state) ==
    [crashed |-> TRUE, diags |-> <<>>, calls |-> <<>>, cluster |-> c, state |-> state]

\* the cluster the handlers talk to
Cluster == [fcs |-> fcs, secrets |-> secrets, nsoffs |-> nsoffs]

\* the identity lookup answering with an empty identity
GetClusterIdentityWithControllerClient_empty(namespace, fault) ==
    [call |-> Call("list", "ConfigMap", NoErr), err |-> NoErr,
     value |-> [ClusterID |-> "", ClusterName |-> ""]]

\* utils.GetClusterIdentityWithControllerClient(ctx, cl, namespace)
GetClusterIdentityWithControllerClient(namespace, fault) ==
    LET err == IF fault = "GetClusterIdentity" THEN Forbidden
               ELSE IF namespace # local.Namespace THEN NotFound
               ELSE NoErr
    IN  [call |-> Call("list", "ConfigMap", err), err |-> err,
         value |-> [ClusterID |-> local.ClusterID, ClusterName |-> local.ClusterName]]

\* auth.GetToken(ctx, cl, namespace)
GetToken(namespace, fault) ==
    LET err == IF fault = "GetToken" THEN Forbidden
               ELSE IF namespace # local.Namespace THEN NotFound
               ELSE NoErr
    IN  [call |-> Call("get", "Secret", err), err |-> err, value |-> local.Token]

\* foreigncluster.GetHomeAuthURL(ctx, cl, namespace)
GetHomeAuthURL(namespace, fault) ==
    LET err == IF fault = "GetHomeAuthURL" THEN Forbidden
               ELSE IF namespace # local.Namespace THEN NotFound
               ELSE NoErr
    IN  [call |-> Call("get", "Service", err), err |-> err, value |-> local.AuthURL]

\* authenticationtokenutils.StoreInSecret(ctx, clientset, clusterID, token, namespace)
StoreInSecret(objs, clusterID, token, namespace, fault) ==
    LET existing == {o \in objs : o.Name = clusterID /\ o.Namespace = namespace}
        secret == [Name |-> clusterID, Namespace |-> namespace, Labels |-> clusterID,
                   Spec |-> [Token |-> token]]
    IN  IF fault = "StoreInSecret"
          THEN [calls |-> <<Call("get", "Secret", Forbidden)>>, err |-> Forbidden,
                objs |-> objs]
        ELSE IF existing = {}
          THEN [calls |-> <<Call("get", "Secret", NotFound), Call("create", "Secret", NoErr)>>,
                err |-> NoErr, objs |-> objs \cup {secret}]
        ELSE [calls |-> <<Call("get", "Secret", NoErr), Call("update", "Secret", NoErr)>>,
              err |-> NoErr, objs |-> (objs \ existing) \cup {secret}]

\* foreigncluster.GetForeignClusterByID(ctx, cl, clusterID)
GetForeignClusterByID(objs, clusterID, fault) ==
    LET found == {o \in objs : o.Labels = clusterID}
        err == IF fault = "GetForeignClusterByID" THEN Forbidden
               ELSE IF found = {} THEN NotFound
               ELSE NoErr
    IN  [call |-> Call("list", "ForeignCluster", err), err |-> err,
         value |-> IF found = {} THEN [isNil |-> TRUE] ELSE CHOOSE o \in found : TRUE]

\* the object CreateOrUpdate hands to the mutate function: the one its Get
\* found under obj's name, else obj itself
getOrKeep(objs, obj) ==
    LET existing == {o \in objs : o.Name = obj.Name /\ o.Namespace = obj.Namespace}
    IN  IF existing = {} THEN obj ELSE CHOOSE o \in existing : TRUE

\* controllerutil.CreateOrUpdate(ctx, c, obj, f), mutated being what f made of
\* getOrKeep(objs, obj)
CreateOrUpdate(objs, kind, obj, mutated, fault) ==
    LET existing == {o \in objs : o.Name = obj.Name /\ o.Namespace = obj.Namespace}
        current == getOrKeep(objs, obj)
        get == Call("get", kind, IF existing = {} THEN NotFound ELSE NoErr)
    IN  IF fault = "Get"
          THEN [calls |-> <<Call("get", kind, Forbidden)>>, err |-> Forbidden, objs |-> objs]
        ELSE IF ~mutated.err.isNil
          THEN [calls |-> <<get>>, err |-> mutated.err, objs |-> objs]
        ELSE IF existing = {}
          THEN IF fault = "Create"
                 THEN [calls |-> <<get, Call("create", kind, Forbidden)>>, err |-> Forbidden,
                       objs |-> objs]
                 ELSE [calls |-> <<get, Call("create", kind, NoErr)>>, err |-> NoErr,
                       objs |-> objs \cup {mutated.obj}]
        ELSE IF mutated.obj = current
          THEN [calls |-> <<get>>, err |-> NoErr, objs |-> objs]
        ELSE IF fault = "Update"
          THEN [calls |-> <<get, Call("update", kind, Forbidden)>>, err |-> Forbidden,
                objs |-> objs]
        ELSE [calls |-> <<get, Call("update", kind, NoErr)>>, err |-> NoErr,
              objs |-> (objs \ existing) \cup {mutated.obj}]

\* the zero value of ForeignClusterSpec
EmptyForeignClusterSpec ==
    [PeeringType |-> PeeringTypeUnknown,
     ClusterIdentity |-> [ClusterID |-> "", ClusterName |-> ""],
     ForeignAuthURL |-> "", ForeignProxyURL |-> "",
     OutgoingPeeringEnabled |-> "", IncomingPeeringEnabled |-> "",
     InsecureSkipTLSVerify |-> "nil"]

\* the mutate function without its look at the peering type
peerMutate_anyType(fc, planned) ==
    [err |-> NoErr,
     obj |-> [fc EXCEPT !.Spec =
        [PeeringType |-> PeeringTypeOutOfBand,
         ClusterIdentity |->
            [ClusterID |-> ValueString(planned.ClusterID),
             ClusterName |-> IF fc.Spec.ClusterIdentity.ClusterName = ""
                               THEN ValueString(planned.ClusterName)
                               ELSE fc.Spec.ClusterIdentity.ClusterName],
         ForeignAuthURL |-> ValueString(planned.ClusterAuthURL),
         ForeignProxyURL |-> "",
         OutgoingPeeringEnabled |-> PeeringEnabledYes,
         IncomingPeeringEnabled |-> IF fc.Spec.IncomingPeeringEnabled = ""
                                      THEN PeeringEnabledAuto
                                      ELSE fc.Spec.IncomingPeeringEnabled,
         InsecureSkipTLSVerify |-> IF fc.Spec.InsecureSkipTLSVerify = "nil"
                                     THEN "true"
                                     ELSE fc.Spec.InsecureSkipTLSVerify]]]

\* the mutate function peer Create hands to CreateOrUpdate
peerMutate(fc, planned) ==
    IF fc.Spec.PeeringType # PeeringTypeUnknown /\ fc.Spec.PeeringType # PeeringTypeOutOfBand
      THEN [err |-> StatusError("", M_peeringExists), obj |-> fc]
      ELSE [err |-> NoErr,
            obj |-> [fc EXCEPT !.Spec =
               [PeeringType |-> PeeringTypeOutOfBand,
                ClusterIdentity |->
                   [ClusterID |-> ValueString(planned.ClusterID),
                    ClusterName |-> IF fc.Spec.ClusterIdentity.ClusterName = ""
                                      THEN ValueString(planned.ClusterName)
                                      ELSE fc.Spec.ClusterIdentity.ClusterName],
                ForeignAuthURL |-> ValueString(planned.ClusterAuthURL),
                ForeignProxyURL |-> "",
                OutgoingPeeringEnabled |-> PeeringEnabledYes,
                IncomingPeeringEnabled |-> IF fc.Spec.IncomingPeeringEnabled = ""
                                             THEN PeeringEnabledAuto
                                             ELSE fc.Spec.IncomingPeeringEnabled,
                InsecureSkipTLSVerify |-> IF fc.Spec.InsecureSkipTLSVerify = "nil"
                                            THEN "true"
                                            ELSE fc.Spec.InsecureSkipTLSVerify]]]

\* peerResource.Create
peerCreate(planned, fault, c) ==
    LET params == CheckParameters(config, envKubeConfigPaths, homeOk)
        namespace == ValueString(planned.LiqoNamespace)
        clusterID == ValueString(planned.ClusterID)
        clusterIdentity == GetClusterIdentityWithControllerClient(namespace, fault)
        stored == StoreInSecret(c.secrets, clusterID, ValueString(planned.ClusterToken),
                                namespace, fault)
        c1 == [c EXCEPT !.secrets = stored.objs]
        byID == GetForeignClusterByID(c.fcs, clusterID, fault)
        fc == IF IsNotFound(byID.err)
                THEN [Name |-> ValueString(planned.ClusterName), Namespace |-> "",
                      Labels |-> clusterID, Spec |-> EmptyForeignClusterSpec]
                ELSE byID.value
        cou == CreateOrUpdate(c.fcs, "ForeignCluster", fc,
                              peerMutate(getOrKeep(c.fcs, fc), planned), fault)
        c2 == [c1 EXCEPT !.fcs = cou.objs]
        calls1 == <<clusterIdentity.call>>
        calls2 == calls1 \o stored.calls
        calls3 == calls2 \o <<byID.call>>
        calls4 == calls3 \o cou.calls
    IN  IF fault = "PlanGet" THEN Result(<<ConversionDiag>>, <<>>, c, NullState)
        ELSE IF params.panic THEN Crash(c, NullState)
        ELSE IF ~params.err.isNil
          THEN Result(<<ErrorDiag(CreateSummary, params.err.msg)>>, <<>>, c, NullState)
        ELSE IF fault = "NewClients"
          THEN Result(<<ErrorDiag(CreateSummary, M_clientCfg)>>, <<>>, c, NullState)
        ELSE IF ~clusterIdentity.err.isNil
          THEN Result(<<ErrorDiag(CreateSummary, clusterIdentity.err.msg)>>, calls1, c,
                      NullState)
        ELSE IF clusterIdentity.value.ClusterID = clusterID
          THEN Result(<<ErrorDiag(CreateSummary, M_samePeer)>>, calls1, c, NullState)
        ELSE IF ~stored.err.isNil
          THEN Result(<<ErrorDiag(CreateSummary, stored.err.msg)>>, calls2, c1, NullState)
        ELSE IF ~byID.err.isNil /\ ~IsNotFound(byID.err)
          THEN Result(<<ErrorDiag(CreateSummary, byID.err.msg)>>, calls3, c1, NullState)
        ELSE IF ~cou.err.isNil
          THEN Result(<<ErrorDiag(CreateSummary, cou.err.msg)>>, calls4, c2, NullState)
        ELSE Result(<<>>, calls4, c2, StateOf(planned))

\* a Read that drops the resource once the cluster holds none of the objects
\* the resources write
resourceRead_refresh(state, fault, c) ==
    IF fault = "StateGet" THEN Result(<<ConversionDiag>>, <<>>, c, state)
    ELSE IF c.fcs = {} /\ c.nsoffs = {} THEN Result(<<>>, <<>>, c, NullState)
    ELSE Result(<<>>, <<>>, c, state)

\* peerResource.Read, offloadResource.Read, generateResource.Read
resourceRead(state, fault, c) ==
    IF fault = "StateGet" THEN Result(<<ConversionDiag>>, <<>>, c, state)
    ELSE Result(<<>>, <<>>, c, state)

\* an Update that hands an empty state back
resourceUpdate_dropState(state, c) == Result(<<UpdateDiag>>, <<>>, c, NullState)

\* peerResource.Update, offloadResource.Update, generateResource.Update
resourceUpdate(state, c) == Result(<<UpdateDiag>>, <<>>, c, state)

\* peerResource.Delete without its look at the peering type
peerDelete_anyType(state, fault, c) ==
    LET data == state.model
        params == CheckParameters(config, envKubeConfigPaths, homeOk)
        found == {o \in c.fcs : o.Name = ValueString(data.ClusterName) /\ o.Namespace = ""}
        getErr == IF fault = "Get" THEN Forbidden
                  ELSE IF found = {} THEN NotFound
                  ELSE NoErr
        get == Call("get", "ForeignCluster", getErr)
        foreignCluster == CHOOSE o \in found : TRUE
        updated == [foreignCluster EXCEPT !.Spec.OutgoingPeeringEnabled = PeeringEnabledNo]
    IN  IF params.panic THEN Crash(c, state)
        ELSE IF ~params.err.isNil
          THEN Result(<<ErrorDiag(DeleteSummary, params.err.msg)>>, <<>>, c, state)
        ELSE IF fault = "NewClients"
          THEN Result(<<ErrorDiag(DeleteSummary, M_clientCfg)>>, <<>>, c, state)
        ELSE IF ~getErr.isNil THEN Result(<<>>, <<get>>, c, state)
        ELSE IF fault = "Update"
          THEN Result(<<ErrorDiag(DeleteSummary, Forbidden.msg)>>,
                      <<get, Call("update", "ForeignCluster", Forbidden)>>, c, state)
        ELSE Result(<<>>, <<get, Call("update", "ForeignCluster", NoErr)>>,
                    [c EXCEPT !.fcs = (c.fcs \ found) \cup {updated}], state)

\* peerResource.Delete
peerDelete(state, fault, c) ==
    LET data == state.model
        params == CheckParameters(config, envKubeConfigPaths, homeOk)
        found == {o \in c.fcs : o.Name = ValueString(data.ClusterName) /\ o.Namespace = ""}
        getErr == IF fault = "Get" THEN Forbidden
                  ELSE IF found = {} THEN NotFound
                  ELSE NoErr
        get == Call("get", "ForeignCluster", getErr)
        foreignCluster == CHOOSE o \in found : TRUE
        updated == [foreignCluster EXCEPT !.Spec.OutgoingPeeringEnabled = PeeringEnabledNo]
    IN  IF params.panic THEN Crash(c, state)
        ELSE IF ~params.err.isNil
          THEN Result(<<ErrorDiag(DeleteSummary, params.err.msg)>>, <<>>, c, state)
        ELSE IF fault = "NewClients"
          THEN Result(<<ErrorDiag(DeleteSummary, M_clientCfg)>>, <<>>, c, state)
        ELSE IF ~getErr.isNil THEN Result(<<>>, <<get>>, c, state)
        ELSE IF foreignCluster.Spec.PeeringType # PeeringTypeOutOfBand
          THEN Result(<<>>, <<get>>, c, state)
        ELSE IF fault = "Update"
          THEN Result(<<ErrorDiag(DeleteSummary, Forbidden.msg)>>,
                      <<get, Call("update", "ForeignCluster", Forbidden)>>, c, state)
        ELSE Result(<<>>, <<get, Call("update", "ForeignCluster", NoErr)>>,
                    [c EXCEPT !.fcs = (c.fcs \ found) \cup {updated}], state)

\* the loop over matchExpression.Values: each value is appended to values
RECURSIVE valuesLoop(_, _)
valuesLoop(Values, values) ==
    IF Values = <<>> THEN values
    ELSE valuesLoop(Tail(Values), Append(values, ValueString(Head(Values))))

\* matchExpressionsLoop with values declared outside the loop, so that it is
\* carried from one match expression to the next
RECURSIVE matchExpressionsLoop_sharedValues(_, _)
matchExpressionsLoop_sharedValues(MatchExpressions, reqs) ==
    IF MatchExpressions = <<>> THEN reqs
    ELSE LET matchExpression == Head(MatchExpressions)
             carried == IF reqs = <<>> THEN <<>> ELSE reqs[Len(reqs)].Values
             req == [Key |-> ValueString(matchExpression.Key),
                     Operator |-> ValueString(matchExpression.Operator),
                     Values |-> valuesLoop(matchExpression.Values, carried)]
         IN  matchExpressionsLoop_sharedValues(Tail(MatchExpressions), Append(reqs, req))

\* the loop over selector.MatchExpressions: one LabelSelectorRequirement is
\* appended to s.MatchExpressions per match expression
RECURSIVE matchExpressionsLoop(_, _)
matchExpressionsLoop(MatchExpressions, reqs) ==
    IF MatchExpressions = <<>> THEN reqs
    ELSE LET matchExpression == Head(MatchExpressions)
             req == [Key |-> ValueString(matchExpression.Key),
                     Operator |-> ValueString(matchExpression.Operator),
                     Values |-> valuesLoop(matchExpression.Values, <<>>)]
         IN  matchExpressionsLoop(Tail(MatchExpressions), Append(reqs, req))

\* the loop over plan.ClusterSelectorTerms: the match expressions of each
\* selector are appended to clusterSelector
RECURSIVE clusterSelectorLoop(_, _)
clusterSelectorLoop(ClusterSelectorTerms, clusterSelector) ==
    IF ClusterSelectorTerms = <<>> THEN clusterSelector
    ELSE clusterSelectorLoop(
           Tail(ClusterSelectorTerms),
           Append(clusterSelector,
                  matchExpressionsLoop(Head(ClusterSelectorTerms).MatchExpressions, <<>>)))

\* the loop over one selector: a NodeSelectorRequirement per requirement
RECURSIVE requirementsLoop(_, _)
requirementsLoop(selector, requirements) ==
    IF selector = <<>> THEN requirements
    ELSE requirementsLoop(
           Tail(selector),
           Append(requirements,
                  [Key |-> Head(selector).Key, Operator |-> Head(selector).Operator,
                   Values |-> Head(selector).Values]))

\* the loop over clusterSelector: a NodeSelectorTerm per selector
RECURSIVE termsLoop(_, _)
termsLoop(clusterSelector, terms) ==
    IF clusterSelector = <<>> THEN terms
    ELSE termsLoop(Tail(clusterSelector),
                   Append(terms,
                          [MatchExpressions |-> requirementsLoop(Head(clusterSelector), <<>>)]))

\* the node selector terms offload Create builds from cluster_selector_terms
selectorTerms(ClusterSelectorTerms) ==
    termsLoop(clusterSelectorLoop(ClusterSelectorTerms, <<>>), <<>>)

\* offloadMutate with the namespace mapping strategy of an existing object kept
offloadMutate_keepMapping(nsoff, planned) ==
    [err |-> NoErr,
     obj |-> [nsoff EXCEPT !.Spec =
        [PodOffloadingStrategy |-> ValueString(planned.PodOffloadingStrategy),
         NamespaceMappingStrategy |->
            IF nsoff.Spec.NamespaceMappingStrategy = ""
              THEN ValueString(planned.NamespaceMappingStrategy)
              ELSE nsoff.Spec.NamespaceMappingStrategy,
         ClusterSelector |->
            [NodeSelectorTerms |-> selectorTerms(planned.ClusterSelectorTerms)]]]]

\* the mutate function offload Create hands to CreateOrUpdate
offloadMutate(nsoff, planned) ==
    [err |-> NoErr,
     obj |-> [nsoff EXCEPT !.Spec =
        [PodOffloadingStrategy |-> ValueString(planned.PodOffloadingStrategy),
         NamespaceMappingStrategy |-> ValueString(planned.NamespaceMappingStrategy),
         ClusterSelector |->
            [NodeSelectorTerms |-> selectorTerms(planned.ClusterSelectorTerms)]]]]

\* the zero value of NamespaceOffloadingSpec
EmptyNamespaceOffloadingSpec ==
    [PodOffloadingStrategy |-> "", NamespaceMappingStrategy |-> "",
     ClusterSelector |-> [NodeSelectorTerms |-> <<>>]]

\* offloadResource.Create
offloadCreate(planned, fault, c) ==
    LET params == CheckParameters(config, envKubeConfigPaths, homeOk)
        nsoff == [Name |-> DefaultNamespaceOffloadingName,
                  Namespace |-> ValueString(planned.Namespace), Labels |-> "",
                  Spec |-> EmptyNamespaceOffloadingSpec]
        cou == CreateOrUpdate(c.nsoffs, "NamespaceOffloading", nsoff,
                              offloadMutate(getOrKeep(c.nsoffs, nsoff), planned), fault)
        c1 == [c EXCEPT !.nsoffs = cou.objs]
    IN  IF fault = "PlanGet" THEN Result(<<ConversionDiag>>, <<>>, c, NullState)
        ELSE IF params.panic THEN Crash(c, NullState)
        ELSE IF ~params.err.isNil
          THEN Result(<<ErrorDiag(CreateSummary, params.err.msg)>>, <<>>, c, NullState)
        ELSE IF fault = "NewClients"
          THEN Result(<<ErrorDiag(CreateSummary, M_clientCfg)>>, <<>>, c, NullState)
        ELSE IF ~cou.err.isNil
          THEN Result(<<ErrorDiag(CreateSummary, cou.err.msg)>>, cou.calls, c1, NullState)
        ELSE Result(<<>>, cou.calls, c1, StateOf(planned))

\* offloadResource.Delete
offloadDelete(state, fault, c) ==
    LET data == state.model
        params == CheckParameters(config, envKubeConfigPaths, homeOk)
        found == {o \in c.nsoffs : o.Name = DefaultNamespaceOffloadingName
                                     /\ o.Namespace = ValueString(data.Namespace)}
        err == IF fault = "Delete" THEN Forbidden
               ELSE IF found = {} THEN NotFound
               ELSE NoErr
        delete == Call("delete", "NamespaceOffloading", err)
    IN  IF params.panic THEN Crash(c, state)
        ELSE IF ~params.err.isNil
          THEN Result(<<ErrorDiag(DeleteSummary, params.err.msg)>>, <<>>, c, state)
        ELSE IF fault = "NewClients"
          THEN Result(<<ErrorDiag(DeleteSummary, M_clientCfg)>>, <<>>, c, state)
        ELSE IF ~IgnoreNotFound(err).isNil
          THEN Result(<<ErrorDiag(DeleteSummary, err.msg)>>, <<delete>>, c, state)
        ELSE Result(<<>>, <<delete>>, [c EXCEPT !.nsoffs = c.nsoffs \ found], state)

\* the cluster name generate Create falls back to
withClusterName_keepEmpty(clusterIdentity) == clusterIdentity
withClusterName(clusterIdentity) ==
    IF clusterIdentity.ClusterName = ""
      THEN [clusterIdentity EXCEPT !.ClusterName = clusterIdentity.ClusterID]
      ELSE clusterIdentity

\* generateResource.Create
generateCreate(planned, fault, c) ==
    LET params == CheckParameters(config, envKubeConfigPaths, homeOk)
        namespace == ValueString(planned.LiqoNamespace)
        got == GetClusterIdentityWithControllerClient(namespace, fault)
        localToken == GetToken(namespace, fault)
        authEP == GetHomeAuthURL(namespace, fault)
        clusterIdentity == withClusterName(got.value)
        calls1 == <<got.call>>
        calls2 == calls1 \o <<localToken.call>>
        calls3 == calls2 \o <<authEP.call>>
    IN  IF fault = "PlanGet" THEN Result(<<ConversionDiag>>, <<>>, c, NullState)
        ELSE IF params.panic THEN Crash(c, NullState)
        ELSE IF ~params.err.isNil
          THEN Result(<<ErrorDiag(CreateSummary, params.err.msg)>>, <<>>, c, NullState)
        ELSE IF fault = "NewClients"
          THEN Result(<<ErrorDiag(CreateSummary, M_clientCfg)>>, <<>>, c, NullState)
        ELSE IF ~got.err.isNil
          THEN Result(<<ErrorDiag(CreateSummary, got.err.msg)>>, calls1, c, NullState)
        ELSE IF ~localToken.err.isNil
          THEN Result(<<ErrorDiag(CreateSummary, localToken.err.msg)>>, calls2, c, NullState)
        ELSE IF ~authEP.err.isNil
          THEN Result(<<ErrorDiag(CreateSummary, authEP.err.msg)>>, calls3, c, NullState)
        ELSE Result(<<>>, calls3, c,
                    StateOf([planned EXCEPT
                               !.ClusterID = StringValue(clusterIdentity.ClusterID),
                               !.ClusterName = StringValue(clusterIdentity.ClusterName),
                               !.LocalToken = StringValue(localToken.value),
                               !.AuthEP = StringValue(authEP.value)]))

\* generateResource.Delete
generateDelete(state, c) == Result(<<>>, <<>>, c, state)

\* no handler has run yet
NoResp == [resource |-> "", op |-> "", req |-> NullState, fault |-> "none",
           crashed |-> FALSE, diags |-> <<>>, calls |-> <<>>]

\* the handler's response reaches Terraform: a Delete without an error
\* diagnostic removes the resource from the state; req is the plan (Create) or
\* the prior state (Read, Update, Delete) of the request
Respond(resource, op, req, fault, r) ==
    /\ fcs' = r.cluster.fcs
    /\ secrets' = r.cluster.secrets
    /\ nsoffs' = r.cluster.nsoffs
    /\ tfstate' = [tfstate EXCEPT ![resource] =
                     IF op = "Delete" /\ ~r.crashed /\ ~HasError(r.diags)
                       THEN NullState ELSE r.state]
    /\ resp' = [resource |-> resource, op |-> op, req |-> req, fault |-> fault,
                crashed |-> r.crashed, diags |-> r.diags, calls |-> r.calls]
    /\ nOps' = nOps + 1
    /\ UNCHANGED local
    /\ UNCHANGED nonResVars

\* the plans Terraform hands to peer Create
PeerPlans ==
    [ClusterID : {StringValue("id-milan"), StringValue("id-rome")},
     ClusterName : {StringValue("milan"), StringValue("turin")},
     ClusterAuthURL : {StringValue("https://milan:443")},
     ClusterToken : {StringValue("token-milan")},
     LiqoNamespace : {StringValue("liqo")}]

\* a term of cluster_selector_terms
TermRegion ==
    [MatchExpressions |->
       <<[Key |-> StringValue("region"), Operator |-> StringValue("In"),
          Values |-> <<StringValue("eu"), StringValue("us")>>],
         [Key |-> StringValue("gpu"), Operator |-> StringValue("Exists"),
          Values |-> <<>>]>>]
TermProvider ==
    [MatchExpressions |->
       <<[Key |-> StringValue("provider"), Operator |-> StringValue("NotIn"),
          Values |-> <<StringValue("aws")>>]>>]

\* a term without match expressions
TermAny == [MatchExpressions |-> <<>>]

\* the plans Terraform hands to offload Create
OffloadPlans ==
    [Namespace : {StringValue("ns1"), StringValue("ns2")},
     PodOffloadingStrategy : {StringValue("Local"), StringValue("LocalAndRemote")},
     NamespaceMappingStrategy : {StringValue("DefaultName")},
     ClusterSelectorTerms : {<<>>, <<TermRegion, TermProvider>>, <<TermAny, TermProvider>>}]

\* the plans Terraform hands to generate Create
GeneratePlans ==
    [ClusterID : {StringUnknown}, ClusterName : {StringUnknown}, AuthEP : {StringUnknown},
     LocalToken : {StringUnknown},
     LiqoNamespace : {StringValue("liqo"), StringValue("liqo-system")}]

PeerCreate ==
    /\ nOps < MaxOps
    /\ tfstate.peer.isNull
    /\ \E planned \in PeerPlans :
       \E fault \in {"none", "PlanGet", "NewClients", "GetClusterIdentity", "StoreInSecret",
                     "GetForeignClusterByID", "Get", "Create", "Update"} :
          Respond("peer", "Create", planned, fault, peerCreate(planned, fault, Cluster))

PeerRead ==
    /\ nOps < MaxOps
    /\ ~tfstate.peer.isNull
    /\ \E fault \in {"none", "StateGet"} :
          Respond("peer", "Read", tfstate.peer, fault,
                  resourceRead(tfstate.peer, fault, Cluster))

PeerUpdate ==
    /\ nOps < MaxOps
    /\ ~tfstate.peer.isNull
    /\ Respond("peer", "Update", tfstate.peer, "none",
                  resourceUpdate(tfstate.peer, Cluster))

PeerDelete ==
    /\ nOps < MaxOps
    /\ ~tfstate.peer.isNull
    /\ \E fault \in {"none", "NewClients", "Get", "Update"} :
          Respond("peer", "Delete", tfstate.peer, fault,
                  peerDelete(tfstate.peer, fault, Cluster))

OffloadCreate ==
    /\ nOps < MaxOps
    /\ tfstate.offload.isNull
    /\ \E planned \in OffloadPlans :
       \E fault \in {"none", "PlanGet", "NewClients", "Get", "Create", "Update"} :
          Respond("offload", "Create", planned, fault,
                  offloadCreate(planned, fault, Cluster))

OffloadRead ==
    /\ nOps < MaxOps
    /\ ~tfstate.offload.isNull
    /\ \E fault \in {"none", "StateGet"} :
          Respond("offload", "Read", tfstate.offload, fault,
                  resourceRead(tfstate.offload, fault, Cluster))

OffloadUpdate ==
    /\ nOps < MaxOps
    /\ ~tfstate.offload.isNull
    /\ Respond("offload", "Update", tfstate.offload, "none",
                  resourceUpdate(tfstate.offload, Cluster))

OffloadDelete ==
    /\ nOps < MaxOps
    /\ ~tfstate.offload.isNull
    /\ \E fault \in {"none", "NewClients", "Delete"} :
          Respond("offload", "Delete", tfstate.offload, fault,
                  offloadDelete(tfstate.offload, fault, Cluster))

GenerateCreate ==
    /\ nOps < MaxOps
    /\ tfstate.generate.isNull
    /\ \E planned \in GeneratePlans :
       \E fault \in {"none", "PlanGet", "NewClients", "GetClusterIdentity", "GetToken",
                     "GetHomeAuthURL"} :
          Respond("generate", "Create", planned, fault,
                  generateCreate(planned, fault, Cluster))

GenerateRead ==
    /\ nOps < MaxOps
    /\ ~tfstate.generate.isNull
    /\ \E fault \in {"none", "StateGet"} :
          Respond("generate", "Read", tfstate.generate, fault,
                  resourceRead(tfstate.generate, fault, Cluster))

GenerateUpdate ==
    /\ nOps < MaxOps
    /\ ~tfstate.generate.isNull
    /\ Respond("generate", "Update", tfstate.generate, "none",
                  resourceUpdate(tfstate.generate, Cluster))

GenerateDelete ==
    /\ nOps < MaxOps
    /\ ~tfstate.generate.isNull
    /\ Respond("generate", "Delete", tfstate.generate, "none",
                  generateDelete(tfstate.generate, Cluster))

\* someone else deletes an object of the cluster
ExternalDelete ==
    /\ \/ \E o \in fcs : fcs' = fcs \ {o} /\ UNCHANGED <<secrets, nsoffs>>
       \/ \E o \in secrets : secrets' = secrets \ {o} /\ UNCHANGED <<fcs, nsoffs>>
       \/ \E o \in nsoffs : nsoffs' = nsoffs \ {o} /\ UNCHANGED <<fcs, secrets>>
    /\ UNCHANGED <<local, tfstate, resp, nOps>>
    /\ UNCHANGED nonResVars

\* the local cluster: Liqo installed in namespace liqo
LocalClusters ==
    [Namespace : {"liqo"}, ClusterID : {"id-rome"}, ClusterName : {"", "rome"},
     Token : {"token-rome"}, AuthURL : {"https://rome:443"}]

\* a ForeignCluster as the cluster holds it
ForeignCluster(name, id, type, clusterName, outgoing, incoming, insecure) ==
    [Name |-> name, Namespace |-> "", Labels |-> id,
     Spec |-> [PeeringType |-> type,
               ClusterIdentity |-> [ClusterID |-> id, ClusterName |-> clusterName],
               ForeignAuthURL |-> "https://old:443", ForeignProxyURL |-> "https://proxy:443",
               OutgoingPeeringEnabled |-> outgoing, IncomingPeeringEnabled |-> incoming,
               InsecureSkipTLSVerify |-> insecure]]

\* the ForeignClusters the cluster holds before the run
InitialForeignClusters ==
    {{},
     {ForeignCluster("milan", "id-milan", PeeringTypeOutOfBand, "milan",
                     PeeringEnabledYes, PeeringEnabledAuto, "true")},
     {ForeignCluster("milan-discovered", "id-milan", PeeringTypeUnknown, "milano",
                     PeeringEnabledNo, PeeringEnabledNo, "false")},
     {ForeignCluster("milan", "id-milan", PeeringTypeInBand, "milan",
                     PeeringEnabledYes, PeeringEnabledYes, "false")},
     {ForeignCluster("turin", "id-turin", PeeringTypeOutOfBand, "turin",
                     PeeringEnabledYes, PeeringEnabledAuto, "true")},
     {ForeignCluster("milan-discovered", "id-milan", PeeringTypeUnknown, "milano",
                     PeeringEnabledNo, PeeringEnabledNo, "false"),
      ForeignCluster("turin", "id-turin", PeeringTypeInBand, "turin",
                     PeeringEnabledYes, PeeringEnabledYes, "false")}}

\* the NamespaceOffloadings the cluster holds before the run
InitialNamespaceOffloadings ==
    {{},
     {[Name |-> DefaultNamespaceOffloadingName, Namespace |-> "ns1", Labels |-> "",
       Spec |-> [PodOffloadingStrategy |-> "Remote",
                 NamespaceMappingStrategy |-> "EnforceSameName",
                 ClusterSelector |-> [NodeSelectorTerms |-> <<>>]]]}}

----------------------------------------------------------------------------
(* The DefaultValue plan modifiers (package planmodifier) *)

\* number of times the framework applies the modifier of one attribute
MaxApplications == 2

BoolUnknown == [state |-> "unknown", value |-> FALSE]
ListNull == [state |-> "null", value |-> <<>>]
ListUnknown == [state |-> "unknown", value |-> <<>>]
ListValue(l) == [state |-> "known", value |-> l]
MapNull == [state |-> "null", value |-> <<>>]
MapUnknown == [state |-> "unknown", value |-> <<>>]
MapValue(m) == [state |-> "known", value |-> m]

\* the modifier without its look at the configuration
PlanModifyString_ignoreConfig(DefaultValue, req) ==
    IF ~IsUnknown(req.PlanValue) /\ ~IsNull(req.PlanValue)
    THEN req.PlanValue
    ELSE DefaultValue

\* stringDefaultValuePlanModifier.PlanModifyString: the PlanValue of the response,
\* which the framework initialises to the PlanValue of the request
PlanModifyString(DefaultValue, req) ==
    IF ~IsNull(req.ConfigValue)
    THEN req.PlanValue
    ELSE IF ~IsUnknown(req.PlanValue) /\ ~IsNull(req.PlanValue)
         THEN req.PlanValue
         ELSE DefaultValue

\* boolDefaultValuePlanModifier.PlanModifyBool
PlanModifyBool(DefaultValue, req) ==
    IF ~IsNull(req.ConfigValue)
    THEN req.PlanValue
    ELSE IF ~IsUnknown(req.PlanValue) /\ ~IsNull(req.PlanValue)
         THEN req.PlanValue
         ELSE DefaultValue

\* listDefaultValuePlanModifier.PlanModifyList
PlanModifyList(DefaultValue, req) ==
    IF ~IsNull(req.ConfigValue)
    THEN req.PlanValue
    ELSE IF ~IsUnknown(req.PlanValue) /\ ~IsNull(req.PlanValue)
         THEN req.PlanValue
         ELSE DefaultValue

\* mapDefaultValuePlanModifier.PlanModifyMap
PlanModifyMap(DefaultValue, req) ==
    IF ~IsNull(req.ConfigValue)
    THEN req.PlanValue
    ELSE IF ~IsUnknown(req.PlanValue) /\ ~IsNull(req.PlanValue)
         THEN req.PlanValue
         ELSE DefaultValue

\* defaultValueAttributePlanModifier.Modify, the legacy modifier: the
\* AttributePlan of the response
Modify(DefaultValue, req) ==
    IF ~IsNull(req.AttributeConfig)
    THEN req.AttributePlan
    ELSE IF ~IsUnknown(req.AttributePlan) /\ ~IsNull(req.AttributePlan)
         THEN req.AttributePlan
         ELSE DefaultValue

\* the values an attribute of each kind can take: as DefaultValue, in the
\* configuration (never unknown here) and in the incoming plan
ModifierKinds == {"string", "bool", "list", "map", "legacy"}

NullOf(kind) ==
    CASE kind = "bool" -> BoolNull
      [] kind = "list" -> ListNull
      [] kind = "map" -> MapNull
      [] OTHER -> StringNull

UnknownOf(kind) ==
    CASE kind = "bool" -> BoolUnknown
      [] kind = "list" -> ListUnknown
      [] kind = "map" -> MapUnknown
      [] OTHER -> StringUnknown

KnownOf(kind) ==
    CASE kind = "bool" -> {BoolValue(TRUE), BoolValue(FALSE)}
      [] kind = "list" -> {ListValue(<<>>), ListValue(<<"a", "b">>)}
      [] kind = "map" -> {MapValue(<<>>), MapValue([k \in {"region"} |-> "eu"])}
      [] OTHER -> {StringValue(""), StringValue("liqo")}

\* the request the framework builds for the next application
ModifyRequest ==
    [ConfigValue |-> attrConfig, PlanValue |-> attrPlans[Len(attrPlans)]]

LegacyRequest ==
    [AttributeConfig |-> attrConfig, AttributePlan |-> attrPlans[Len(attrPlans)]]

CanApply(kind) ==
    /\ modifier.kind = kind
    /\ Len(attrPlans) >= 1
    /\ Len(attrPlans) <= MaxApplications

ApplyString ==
    /\ CanApply("string")
    /\ attrPlans' = Append(attrPlans, PlanModifyString(modifier.DefaultValue, ModifyRequest))
    /\ UNCHANGED <<modifier, attrConfig, nonModVars>>

ApplyBool ==
    /\ CanApply("bool")
    /\ attrPlans' = Append(attrPlans, PlanModifyBool(modifier.DefaultValue, ModifyRequest))
    /\ UNCHANGED <<modifier, attrConfig, nonModVars>>

ApplyList ==
    /\ CanApply("list")
    /\ attrPlans' = Append(attrPlans, PlanModifyList(modifier.DefaultValue, ModifyRequest))
    /\ UNCHANGED <<modifier, attrConfig, nonModVars>>

ApplyMap ==
    /\ CanApply("map")
    /\ attrPlans' = Append(attrPlans, PlanModifyMap(modifier.DefaultValue, ModifyRequest))
    /\ UNCHANGED <<modifier, attrConfig, nonModVars>>

ApplyLegacy ==
    /\ CanApply("legacy")
    /\ attrPlans' = Append(attrPlans, Modify(modifier.DefaultValue, LegacyRequest))
    /\ UNCHANGED <<modifier, attrConfig, nonModVars>>

----------------------------------------------------------------------------
(* Specifications *)

\* the plan and kubeconfig the timed model runs with
WaitPlan == [RemoteKubeconfig |-> StringValue("/remote.yaml"),
             RemoteLiqoNamespace |-> StringNull,
             LiqoNamespace |-> StringValue("liqo")]

\* the call has created timeoutCtx and the ticker
WaitStart ==
    /\ pc = "check"
    /\ phase = "initial"
    /\ now = 0
    /\ cancelled = FALSE
    /\ tickPending = FALSE
    /\ remoteClusterID = <<>>
    /\ remoteArgs = <<>>
    /\ localArgs = <<>>
    /\ lastQuery = NoQuery
    /\ nQueries = 0
    /\ result = NoResult

\* waitForPeeringCompletion is not running
WaitIdle ==
    /\ pc = "idle"
    /\ phase = "initial"
    /\ now = 0
    /\ timeout = 0
    /\ cancelled = FALSE
    /\ tickPending = FALSE
    /\ plan = WaitPlan
    /\ localKubeconfig = ""
    /\ remoteClusterID = <<>>
    /\ remoteArgs = <<>>
    /\ localArgs = <<>>
    /\ lastQuery = NoQuery
    /\ nQueries = 0
    /\ result = NoResult

\* evaluatePeerStatus is not running on its own
EvalIdle == peer = PeerInfo(ID_milan, <<>>, <<>>, <<>>) /\ peerStatus = ""

\* CheckParameters is not running on its own
CfgIdle ==
    /\ config = HomeConfig
    /\ envKubeConfigPaths = <<>>
    /\ homeOk = TRUE
    /\ cfgResult = NotCalled

\* no resource handler runs
ResIdle ==
    /\ local = [Namespace |-> "liqo", ClusterID |-> "id-rome", ClusterName |-> "rome",
                Token |-> "token-rome", AuthURL |-> "https://rome:443"]
    /\ fcs = {}
    /\ secrets = {}
    /\ nsoffs = {}
    /\ tfstate = [peer |-> NullState, offload |-> NullState, generate |-> NullState]
    /\ resp = NoResp
    /\ nOps = 0

\* no plan modifier runs
ModIdle ==
    /\ modifier = [kind |-> "string", DefaultValue |-> StringNull]
    /\ attrConfig = StringNull
    /\ attrPlans = <<>>

\* waitForPeeringCompletion, with time and the caller's cancellation
Init ==
    /\ WaitStart
    /\ timeout \in 0..MaxTimeout
    /\ plan = WaitPlan
    /\ localKubeconfig = "/local.yaml"
    /\ EvalIdle
    /\ CfgIdle
    /\ ResIdle
    /\ ModIdle

\* the steps of the call itself
Program == StartCheck \/ RemoteCmdReturn \/ LocalCmdReturn \/ Select

Next == StartCheck \/ RemoteCmdReturn \/ LocalCmdReturn \/ Select \/ Advance \/ Cancel

Spec == Init /\ [][Next]_vars

\* the call keeps running, started commands end, and time passes
FairSpec == Spec /\ WF_vars(Program) /\ WF_vars(Advance)

\* the namespace and kubeconfig settings a plan can hold
PlanValues ==
    [RemoteKubeconfig : {StringNull, StringValue(""), StringValue("/remote.yaml")},
     RemoteLiqoNamespace : {StringNull, StringValue(""), StringValue("liqo-remote")},
     LiqoNamespace : {StringNull, StringValue(""), StringValue("liqo")}]

\* one checkPeeringStatus call, under a context that stays live
InitCheck ==
    /\ WaitStart
    /\ timeout = MaxTimeout
    /\ plan \in PlanValues
    /\ localKubeconfig \in {"", "/local.yaml"}
    /\ EvalIdle
    /\ CfgIdle
    /\ ResIdle
    /\ ModIdle

NextCheck == StartCheck \/ RemoteCmdReturn \/ LocalCmdReturn

SpecCheck == InitCheck /\ [][NextCheck]_vars

\* evaluatePeerStatus applied to every PeerInfo
InitEval ==
    /\ peer \in PeerInfos
    /\ peerStatus = ""
    /\ WaitIdle
    /\ CfgIdle
    /\ ResIdle
    /\ ModIdle

NextEval == Evaluate

SpecEval == InitEval /\ [][NextEval]_vars

\* CheckParameters applied to the provider configurations
InitConfig ==
    /\ config \in [Kubernetes : KubeConfs \cup {[isNil |-> TRUE]}]
    /\ envKubeConfigPaths \in {<<>>, EnvTwo}
    /\ homeOk \in BOOLEAN
    /\ cfgResult = NotCalled
    /\ WaitIdle
    /\ EvalIdle
    /\ ResIdle
    /\ ModIdle

NextConfig == CallCheckParameters

SpecConfig == InitConfig /\ [][NextConfig]_vars

\* Terraform calls the handlers of the three resources on a cluster
InitResources ==
    /\ local \in LocalClusters
    /\ fcs \in InitialForeignClusters
    /\ secrets = {}
    /\ nsoffs \in InitialNamespaceOffloadings
    /\ tfstate = [peer |-> NullState, offload |-> NullState, generate |-> NullState]
    /\ resp = NoResp
    /\ nOps = 0
    /\ config = HomeConfig
    /\ envKubeConfigPaths = <<>>
    /\ homeOk \in BOOLEAN
    /\ cfgResult = NotCalled
    /\ WaitIdle
    /\ EvalIdle
    /\ ModIdle

NextResources ==
    \/ PeerCreate \/ PeerRead \/ PeerUpdate \/ PeerDelete
    \/ OffloadCreate \/ OffloadRead \/ OffloadUpdate \/ OffloadDelete
    \/ GenerateCreate \/ GenerateRead \/ GenerateUpdate \/ GenerateDelete

SpecResources == InitResources /\ [][NextResources]_vars

\* Create and Read of the three resources, on a cluster that starts without
\* objects and whose objects other parties delete
InitRead ==
    /\ InitResources
    /\ local.ClusterName = "rome"
    /\ homeOk = TRUE
    /\ fcs = {}
    /\ nsoffs = {}

NextRead ==
    \/ PeerCreate \/ OffloadCreate \/ GenerateCreate
    \/ PeerRead \/ OffloadRead \/ GenerateRead
    \/ ExternalDelete

SpecRead == InitRead /\ [][NextRead]_vars

\* the DefaultValue modifiers applied to every attribute, up to
\* MaxApplications times in a row
InitPlan ==
    /\ \E kind \in ModifierKinds :
         /\ \E d \in KnownOf(kind) \cup {NullOf(kind)} :
              modifier = [kind |-> kind, DefaultValue |-> d]
         /\ attrConfig \in KnownOf(kind) \cup {NullOf(kind)}
         /\ \E p \in KnownOf(kind) \cup {NullOf(kind), UnknownOf(kind)} :
              attrPlans = <<p>>
    /\ WaitIdle
    /\ EvalIdle
    /\ CfgIdle
    /\ ResIdle

NextPlan == ApplyString \/ ApplyBool \/ ApplyList \/ ApplyMap \/ ApplyLegacy

SpecPlan == InitPlan /\ [][NextPlan]_vars

----------------------------------------------------------------------------
(* Properties of the status poll *)

\* the most recent checkPeeringStatus call returned ready and no error
LastQueryReady == lastQuery.status = statusReady /\ lastQuery.err.isNil

\* C1: waitForPeeringCompletion always returns, whatever its status queries
\* yield: it ends as ready (no error), as timeout or as an error (both with a
\* non-nil error), and once the context is done the loop iteration that sees
\* it is the last one: from the select, or from the call of the check that a
\* tick started, the call never goes back to wait at the select.
C1_WaitTerminates ==
    /\ <>(pc = "done")
    /\ [](pc = "done" =>
            /\ result.status # ""
            /\ result.err.isNil <=> result.status = statusReady)
    /\ [][ctxDone /\ pc \in {"check", "select"} =>
            \/ pc' \in {pc, "done"}
            \/ pc = "select" /\ pc' = "check"]_vars

\* the call returned timeout after the deadline, having polled at least once
C1_Witness ==
    /\ pc = "done"
    /\ result.status = "timeout"
    /\ now > timeout
    /\ nQueries >= 2

\* C2: the call returns ("ready", nil) exactly when its most recent status
\* query returned ready without error; a query that returned ready ends the
\* call at once and no further query is made.
C2_ReadyIffLastQueryReady ==
    /\ [](pc = "done" =>
            (result.status = statusReady /\ result.err.isNil <=> LastQueryReady))
    /\ [](LastQueryReady => pc = "done")
    /\ [][LastQueryReady => nQueries' = nQueries]_vars

\* ready was returned from a polled check
C2_Witness ==
    /\ pc = "done"
    /\ result.status = statusReady
    /\ result.err.isNil
    /\ nQueries >= 2

\* C3: when the deadline has passed and no status query returned ready, the
\* call returns "timeout" with the timeout error; in particular so when the
\* deadline passed while a query was running, whose liqoctl command the
\* deadline context then killed.
C3_TimeoutReported ==
    (/\ pc = "done"
     /\ ~cancelled
     /\ now >= timeout
     /\ ~lastQuery.err.isNil
     /\ Contains(lastQuery.err.msg, E_killed))
      => /\ result.status = "timeout"
         /\ result.err = Errorf(M_timeout \o FormatDuration(timeout))

\* C4: a status query that yields the status "error" ends the call with a
\* non-nil error; no further query follows it.
C4_ErrorStatusStops ==
    lastQuery.status = statusError => (pc = "done" /\ ~result.err.isNil)

\* C6: evaluatePeerStatus returns ready exactly when no module status contains
\* "Unhealthy" and some module status contains "Healthy" and neither
\* "Unhealthy" nor "Disabled"; otherwise establishing; the result is the same
\* for every arrangement of the three values over the three fields.
C6_Classification ==
    peerStatus # "" =>
      LET f == <<peer.AuthenticationStatus, peer.NetworkingStatus, peer.OffloadingStatus>>
          healthy(x) == /\ Contains(x, S_Healthy)
                        /\ ~Contains(x, S_Unhealthy)
                        /\ ~Contains(x, S_Disabled)
          ready == /\ \A i \in 1..3 : ~Contains(f[i], S_Unhealthy)
                   /\ \E i \in 1..3 : healthy(f[i])
      IN  /\ peerStatus = (IF ready THEN statusReady ELSE statusEstablishing)
          /\ \A q \in Permutations({1, 2, 3}) :
               evaluatePeerStatus(PeerInfo(peer.ClusterID, f[q[1]], f[q[2]], f[q[3]]))
                 = peerStatus

\* a peer with all three modules Disabled was classified as establishing
C6_Witness ==
    /\ peerStatus = statusEstablishing
    /\ peer.AuthenticationStatus = S_Disabled
    /\ peer.NetworkingStatus = S_Disabled
    /\ peer.OffloadingStatus = S_Disabled

\* the argument list the claim describes
ExpectedInfoArgs(path, ns) ==
    LET k == path # ""
        n == ns.state = "known" /\ ns.value # ""
    IN  CASE k /\ n -> <<"info", "--kubeconfig", path, "--namespace", ns.value, "-o", "yaml">>
          [] k /\ ~n -> <<"info", "--kubeconfig", path, "-o", "yaml">>
          [] ~k /\ n -> <<"info", "--namespace", ns.value, "-o", "yaml">>
          [] OTHER -> <<"info", "-o", "yaml">>

\* C7: each liqoctl info argument list is "info", then --kubeconfig <path> iff
\* the path is non-empty, then --namespace <ns> iff the namespace is non-null
\* and non-empty, then -o yaml, and nothing else.
C7_InfoArgs ==
    /\ remoteArgs # <<>> =>
         remoteArgs = ExpectedInfoArgs(ValueString(plan.RemoteKubeconfig),
                                       plan.RemoteLiqoNamespace)
    /\ localArgs # <<>> =>
         localArgs = ExpectedInfoArgs(localKubeconfig, plan.LiqoNamespace)

\* both commands ran, the remote one with an empty namespace and the local one
\* with both flags
C7_Witness ==
    /\ plan.RemoteLiqoNamespace = StringValue("")
    /\ Len(remoteArgs) = 5
    /\ Len(localArgs) = 7

----------------------------------------------------------------------------
(* Properties of the provider configuration *)

\* CheckParameters returned overrides for the configuration
ConfigDone == cfgResult.called /\ ~cfgResult.got.panic /\ cfgResult.got.err.isNil

\* C8: with insecure = true the overrides CheckParameters produces have
\* InsecureSkipTLSVerify = true, with insecure = false they have it false.
C8_InsecureCarried ==
    (ConfigDone /\ ~IsNull(config.Kubernetes.KubeInsecure))
      => cfgResult.got.overrides.ClusterInfo.InsecureSkipTLSVerify
           = ValueBool(config.Kubernetes.KubeInsecure)

\* C9: with at least one kubeconfig path configured, a non-null
\* config_context, config_context_auth_info or config_context_cluster is the
\* CurrentContext, Context.AuthInfo or Context.Cluster of the overrides; a
\* null one leaves that override empty.
C9_ContextCarried ==
    ConfigDone =>
      LET k == config.Kubernetes
          o == cfgResult.got.overrides
          hasPaths == \/ ~IsNull(k.KubeConfigPath)
                      \/ Len(k.KubeConfigPaths) > 0
                      \/ envKubeConfigPaths # <<>>
          carried(field, override) ==
              /\ (hasPaths /\ ~IsNull(field)) => override = ValueString(field)
              /\ IsNull(field) => override = ""
      IN  /\ carried(k.KubeCtx, o.CurrentContext)
          /\ carried(k.KubeCtxAuthInfo, o.Context.AuthInfo)
          /\ carried(k.KubeCtxCluster, o.Context.Cluster)

----------------------------------------------------------------------------
(* Properties of the resources *)

\* the last handler call was op of resource and did not crash
Handled(resource, op) == resp.resource = resource /\ resp.op = op /\ ~resp.crashed

\* C5: when an API call of a Create or Delete returned an error (other than
\* the NotFound answers the handlers branch on), the response holds an error
\* diagnostic with that error's message.
C5_ApiErrorsSurfaced ==
    (resp.op \in {"Create", "Delete"} /\ ~resp.crashed) =>
      \A i \in 1..Len(resp.calls) :
         (~resp.calls[i].err.isNil /\ ~IsNotFound(resp.calls[i].err)) =>
            \E j \in 1..Len(resp.diags) :
               /\ resp.diags[j].severity = "error"
               /\ resp.diags[j].detail = resp.calls[i].err.msg

\* C10: a generate Create without error leaves a state whose cluster_id,
\* cluster_name (the ID when the cluster has no name), auth_ep and local_token
\* are those of the local cluster; Create only reads from the cluster and
\* leaves its objects as they were; when one of its retrievals fails, Create
\* reports an error and leaves no state.
C10_GenerateCreate ==
    /\ [](Handled("generate", "Create") =>
            /\ \A i \in 1..Len(resp.calls) : resp.calls[i].verb \in {"get", "list"}
            /\ ~HasError(resp.diags) =>
                  /\ ~tfstate.generate.isNull
                  /\ tfstate.generate.model.ClusterID = StringValue(local.ClusterID)
                  /\ tfstate.generate.model.ClusterName =
                        StringValue(IF local.ClusterName = "" THEN local.ClusterID
                                    ELSE local.ClusterName)
                  /\ tfstate.generate.model.AuthEP = StringValue(local.AuthURL)
                  /\ tfstate.generate.model.LocalToken = StringValue(local.Token)
            /\ (\E i \in 1..Len(resp.calls) : ~resp.calls[i].err.isNil) =>
                  /\ HasError(resp.diags)
                  /\ tfstate.generate.isNull)
    /\ [][(nOps' = nOps + 1 /\ resp'.resource = "generate" /\ resp'.op = "Create")
            => <<fcs, secrets, nsoffs>>' = <<fcs, secrets, nsoffs>>]_vars

\* generate Create succeeded on a cluster without a name, which holds objects
C10_Witness ==
    /\ Handled("generate", "Create")
    /\ ~HasError(resp.diags)
    /\ local.ClusterName = ""
    /\ tfstate.generate.model.ClusterName = StringValue("id-rome")
    /\ fcs # {}

----------------------------------------------------------------------------
(* Further properties of the status poll *)

\* C11: once the caller's context is cancelled and the call waits at the
\* select, the call returns within that loop iteration: from the select it
\* returns or takes a pending tick, the check that tick starts runs no liqoctl
\* command and returns; what is returned is a non-nil error and never ready.
C11_Cancellable ==
    /\ [][(cancelled /\ pc = "select") =>
            /\ pc' \in {"select", "check", "done"}
            /\ pc' = "done" => (~result'.err.isNil /\ result'.status # statusReady)]_vars
    /\ [][(cancelled /\ pc = "check" /\ phase = "loop") =>
            /\ pc' \in {"check", "done"}
            /\ pc' = "done" => (~result'.err.isNil /\ result'.status # statusReady)]_vars
    /\ ((cancelled /\ pc = "select") ~> (pc = "done"))

\* after the cancellation a pending tick was taken, and the check it started
\* failed with the context's error
C11_Witness ==
    /\ pc = "done"
    /\ cancelled
    /\ nQueries >= 2
    /\ result.status = statusError
    /\ Contains(result.err.msg, E_canceled)

\* the ticks of the ticker that fire before the deadline: the ticker is
\* created after the deadline context, so a tick due at the deadline's own
\* instant fires after it
TicksBeforeDeadline == IF timeout = 0 THEN 0 ELSE (timeout - 1) \div TickerPeriod

\* C12: the number of status queries is at most 1 plus the number of ticks
\* that fire before the deadline; stated for the time up to and including the
\* deadline's instant.
C12_QueriesBoundedByTicks ==
    now <= timeout => nQueries <= 1 + TicksBeforeDeadline

\* C16: a status query that finds the remote cluster missing from the local
\* peer list (no_peers) while the context is live does not end the call: the
\* call goes on to wait for the next tick.
C16_NoPeersKeepsPolling ==
    [][(pc = "local_cmd" /\ ~ctxDone /\ lastQuery'.status = statusNoPeers)
          => pc' = "select"]_vars

\* the peers of a list that carry the cluster ID id, in the order of the list
RECURSIVE PeersOf(_, _)
PeersOf(peers, id) ==
    IF peers = <<>> THEN <<>>
    ELSE IF Head(peers).ClusterID = id THEN <<Head(peers)>> \o PeersOf(Tail(peers), id)
    ELSE PeersOf(Tail(peers), id)

\* C25: checkPeeringStatus runs the remote query before the local one; when the
\* remote query fails or yields an empty ID it returns status error with an
\* error and runs no local query; the outcome of a parsed local query is that
\* of evaluatePeerStatus on the first peer carrying the remote ID, whatever the
\* other peers are, and no_peers with an error when no peer carries it; a nil
\* error comes only with ready or establishing.
C25_FourSteps ==
    /\ [](pc = "remote_cmd" => (remoteArgs # <<>> /\ localArgs = <<>>))
    /\ [](pc = "local_cmd" => (remoteClusterID # <<>> /\ localArgs # <<>>))
    /\ [][\A out \in RemoteOutcomes(ctxDone) :
            (/\ pc = "remote_cmd"
             /\ RemoteOutcome(out)
             /\ (out.kind # "ok" \/ out.ClusterID = <<>>)) =>
               /\ lastQuery'.status = statusError
               /\ ~lastQuery'.err.isNil
               /\ pc' # "local_cmd"
               /\ localArgs' = <<>>]_vars
    /\ [][\A out \in LocalOutcomes(ctxDone) :
            (pc = "local_cmd" /\ LocalOutcome(remoteClusterID, out) /\ out.kind = "ok") =>
               LET matching == PeersOf(out.Peers, remoteClusterID)
               IN  IF matching = <<>>
                     THEN lastQuery'.status = statusNoPeers /\ ~lastQuery'.err.isNil
                     ELSE lastQuery' = [status |-> evaluatePeerStatus(Head(matching)),
                                        err |-> NilErr]]_vars
    /\ []((lastQuery # NoQuery /\ lastQuery.err.isNil)
            => lastQuery.status \in {statusReady, statusEstablishing})

\* a check went through both queries and found the remote cluster ready
C25_Witness ==
    /\ nQueries = 1
    /\ remoteArgs # <<>>
    /\ localArgs # <<>>
    /\ lastQuery = [status |-> statusReady, err |-> NilErr]

\* a checkPeeringStatus call returns in this step
QueryReturned ==
    /\ pc \in {"check", "remote_cmd", "local_cmd"}
    /\ pc' \in {"select", "done"}

\* C26: when a polled check returns an error whose message contains "failed" or
\* "error", the call returns status error with that error; when it returns any
\* other error the call goes back to wait for the next tick; a polled check
\* whose liqoctl command fails, or whose output does not parse, ends the call.
C26_ErrorClassification ==
    /\ [][(phase = "loop" /\ QueryReturned /\ ~lastQuery'.err.isNil) =>
            IF Contains(lastQuery'.err.msg, S_failed) \/ Contains(lastQuery'.err.msg, S_error)
              THEN pc' = "done" /\ result' = [status |-> statusError, err |-> lastQuery'.err]
              ELSE pc' = "select" /\ result' = NoResult]_vars
    /\ [][\A out \in RemoteOutcomes(ctxDone) :
            (/\ phase = "loop" /\ pc = "remote_cmd"
             /\ RemoteOutcome(out) /\ out.kind # "ok") =>
               (pc' = "done" /\ result'.status = statusError)]_vars
    /\ [][\A out \in LocalOutcomes(ctxDone) :
            (/\ phase = "loop" /\ pc = "local_cmd"
             /\ LocalOutcome(remoteClusterID, out) /\ out.kind # "ok") =>
               (pc' = "done" /\ result'.status = statusError)]_vars
    /\ [][(phase = "loop" /\ pc = "check" /\ ctxDone /\ nQueries' = nQueries + 1) =>
            (pc' = "done" /\ result'.status = statusError)]_vars

\* a polled check failed with a matching message and ended the call with its
\* own error
C26_Witness ==
    /\ pc = "done"
    /\ nQueries >= 2
    /\ result = [status |-> statusError, err |-> lastQuery.err]
    /\ Contains(lastQuery.err.msg, S_failed)
    /\ ~Contains(lastQuery.err.msg, E_deadline)

\* a polled check returned an error that matches neither word, and the call
\* went back to the select
C26_WitnessRetry ==
    /\ pc = "select"
    /\ nQueries >= 2
    /\ ~lastQuery.err.isNil

----------------------------------------------------------------------------
(* Further properties of the resources *)

\* the step is a call of op of resource
Handles(resource, op) ==
    nOps' = nOps + 1 /\ resp'.resource = resource /\ resp'.op = op /\ ~resp'.crashed

\* the NamespaceOffloadings with the default name in namespace
OffloadingsIn(objs, namespace) ==
    {o \in objs : o.Name = DefaultNamespaceOffloadingName /\ o.Namespace = namespace}

\* C13: after an offload Create without error for namespace N, exactly one
\* NamespaceOffloading with the default name is in N and its pod offloading
\* and namespace mapping strategies are the planned ones, whether or not one
\* was there before; after an offload Delete without error for N, none is.
C13_OffloadRoundTrip ==
    /\ [][(Handles("offload", "Create") /\ ~HasError(resp'.diags)) =>
            LET planned == tfstate'.offload.model
                found == OffloadingsIn(nsoffs', ValueString(planned.Namespace))
            IN  /\ Cardinality(found) = 1
                /\ \A o \in found :
                     /\ o.Spec.PodOffloadingStrategy
                          = ValueString(planned.PodOffloadingStrategy)
                     /\ o.Spec.NamespaceMappingStrategy
                          = ValueString(planned.NamespaceMappingStrategy)]_vars
    /\ [][(Handles("offload", "Delete") /\ ~HasError(resp'.diags)) =>
            OffloadingsIn(nsoffs', ValueString(tfstate.offload.model.Namespace)) = {}]_vars

\* an offload Delete removed the object that the Create before it had written
C13_Witness ==
    /\ Handled("offload", "Delete")
    /\ ~HasError(resp.diags)
    /\ resp.calls = <<Call("delete", "NamespaceOffloading", NoErr)>>
    /\ nOps = 2
    /\ nsoffs = {}

\* C14: the cluster selector offload Create writes has one NodeSelectorTerm per
\* configured term, in the same order, and each term one requirement per
\* match expression, in the same order, with the same key, operator and
\* values; no configured term gives an empty term list.
C14_SelectorOneToOne ==
    (Handled("offload", "Create") /\ ~HasError(resp.diags)) =>
      LET planned == tfstate.offload.model
          configured == planned.ClusterSelectorTerms
      IN  \A o \in OffloadingsIn(nsoffs, ValueString(planned.Namespace)) :
            LET terms == o.Spec.ClusterSelector.NodeSelectorTerms
            IN  /\ Len(terms) = Len(configured)
                /\ \A i \in 1..Len(configured) :
                     LET exprs == configured[i].MatchExpressions
                         reqs == terms[i].MatchExpressions
                     IN  /\ Len(reqs) = Len(exprs)
                         /\ \A j \in 1..Len(exprs) :
                              /\ reqs[j].Key = ValueString(exprs[j].Key)
                              /\ reqs[j].Operator = ValueString(exprs[j].Operator)
                              /\ Len(reqs[j].Values) = Len(exprs[j].Values)
                              /\ \A k \in 1..Len(exprs[j].Values) :
                                   reqs[j].Values[k] = ValueString(exprs[j].Values[k])

\* an offload Create wrote two terms, the first with two requirements, the
\* second of which has no values
C14_Witness ==
    /\ Handled("offload", "Create")
    /\ ~HasError(resp.diags)
    /\ \E o \in nsoffs :
         /\ Len(o.Spec.ClusterSelector.NodeSelectorTerms) = 2
         /\ Len(o.Spec.ClusterSelector.NodeSelectorTerms[1].MatchExpressions) = 2
         /\ o.Spec.ClusterSelector.NodeSelectorTerms[1].MatchExpressions[2].Values = <<>>

\* the ForeignClusters carrying the cluster ID label clusterID, as
\* GetForeignClusterByID looks them up
ForeignClustersOf(objs, clusterID) == {o \in objs : o.Labels = clusterID}

\* C17: a peer Create whose planned cluster ID is the ID of the local cluster
\* answers with an error diagnostic and leaves the secrets, the
\* ForeignClusters and the Terraform state as they were.
C17_SelfPeeringRefused ==
    [][(Handles("peer", "Create") /\ ValueString(resp'.req.ClusterID) = local.ClusterID) =>
          /\ HasError(resp'.diags)
          /\ secrets' = secrets
          /\ fcs' = fcs
          /\ tfstate'.peer.isNull]_vars

\* a Create for the local cluster's own ID got past the identity lookup and
\* was refused there
C17_Witness ==
    /\ Handled("peer", "Create")
    /\ ValueString(resp.req.ClusterID) = local.ClusterID
    /\ resp.fault = "none"
    /\ resp.diags = <<ErrorDiag(CreateSummary, M_samePeer)>>
    /\ resp.calls = <<Call("list", "ConfigMap", NoErr)>>
    /\ secrets = {}
    /\ tfstate.peer.isNull

\* C18: a peer Create that finds a ForeignCluster of the planned cluster ID
\* with a peering type other than Unknown and OutOfBand answers with an error
\* diagnostic, leaves the ForeignClusters as they were and writes no state.
C18_PeeringTypeKept ==
    [][(/\ Handles("peer", "Create")
        /\ \E o \in ForeignClustersOf(fcs, ValueString(resp'.req.ClusterID)) :
             o.Spec.PeeringType \notin {PeeringTypeUnknown, PeeringTypeOutOfBand}) =>
          /\ HasError(resp'.diags)
          /\ fcs' = fcs
          /\ tfstate'.peer.isNull]_vars

\* a Create reached the mutate function for an InBand ForeignCluster and was
\* stopped by it
C18_Witness ==
    /\ Handled("peer", "Create")
    /\ resp.fault = "none"
    /\ resp.diags = <<ErrorDiag(CreateSummary, M_peeringExists)>>
    /\ \E o \in ForeignClustersOf(fcs, ValueString(resp.req.ClusterID)) :
         o.Spec.PeeringType = PeeringTypeInBand
    /\ tfstate.peer.isNull

\* value, unless it is unset: then fill
FilledWith(value, unset, fill) == IF value = unset THEN fill ELSE value

\* C19: after a peer Create without error the cluster holds a ForeignCluster of
\* the planned cluster ID; it has peering type OutOfBand, the planned cluster
\* ID and authentication URL, an empty proxy URL and outgoing peering Yes; the
\* cluster name, incoming peering and InsecureSkipTLSVerify it had before are
\* kept, and are the planned name, Auto and true where it had none.
C19_CreatedForeignCluster ==
    [][(Handles("peer", "Create") /\ ~HasError(resp'.diags)) =>
          LET planned == resp'.req
              clusterID == ValueString(planned.ClusterID)
              before == ForeignClustersOf(fcs, clusterID)
              old == IF before = {} THEN EmptyForeignClusterSpec
                     ELSE (CHOOSE o \in before : TRUE).Spec
              found == ForeignClustersOf(fcs', clusterID)
          IN  /\ found # {}
              /\ \A o \in found :
                   /\ o.Spec.PeeringType = PeeringTypeOutOfBand
                   /\ o.Spec.ClusterIdentity.ClusterID = clusterID
                   /\ o.Spec.ForeignAuthURL = ValueString(planned.ClusterAuthURL)
                   /\ o.Spec.ForeignProxyURL = ""
                   /\ o.Spec.OutgoingPeeringEnabled = PeeringEnabledYes
                   /\ o.Spec.ClusterIdentity.ClusterName
                        = FilledWith(old.ClusterIdentity.ClusterName, "",
                                     ValueString(planned.ClusterName))
                   /\ o.Spec.IncomingPeeringEnabled
                        = FilledWith(old.IncomingPeeringEnabled, "", PeeringEnabledAuto)
                   /\ o.Spec.InsecureSkipTLSVerify
                        = FilledWith(old.InsecureSkipTLSVerify, "nil", "true")]_vars

\* C20: when a peer Create without error is followed by a peer Delete with the
\* state that Create set, no call failing, the cluster holds a ForeignCluster
\* of the planned cluster ID afterwards and its outgoing peering is No.
C20_PeerRoundTrip ==
    [][(/\ Handled("peer", "Create") /\ ~HasError(resp.diags)
        /\ Handles("peer", "Delete") /\ resp'.fault = "none") =>
          LET clusterID == ValueString(tfstate.peer.model.ClusterID)
              found == ForeignClustersOf(fcs', clusterID)
          IN  /\ found # {}
              /\ \A o \in found : o.Spec.OutgoingPeeringEnabled = PeeringEnabledNo]_vars

\* C21: a peer Delete leaves the secrets and the NamespaceOffloadings as they
\* were and removes no ForeignCluster; either the ForeignClusters are unchanged,
\* or the one named by cluster_name was OutOfBand and differs only in its
\* outgoing peering, now No; when the Get found a ForeignCluster of another
\* peering type, nothing changes and no error is reported.
C21_DeleteFrame ==
    [][Handles("peer", "Delete") =>
          LET name == ValueString(resp'.req.model.ClusterName)
              named == {o \in fcs : o.Name = name}
          IN  /\ secrets' = secrets
              /\ nsoffs' = nsoffs
              /\ \/ fcs' = fcs
                 \/ \E o \in named :
                      /\ o.Spec.PeeringType = PeeringTypeOutOfBand
                      /\ fcs' = (fcs \ {o})
                           \cup {[o EXCEPT !.Spec.OutgoingPeeringEnabled = PeeringEnabledNo]}
              /\ (/\ resp'.calls # <<>>
                  /\ resp'.calls[1] = Call("get", "ForeignCluster", NoErr)
                  /\ \E o \in named : o.Spec.PeeringType # PeeringTypeOutOfBand)
                    => (fcs' = fcs /\ ~HasError(resp'.diags))]_vars

\* a Delete found an InBand ForeignCluster under cluster_name and left it alone
C21_Witness ==
    /\ Handled("peer", "Delete")
    /\ resp.calls = <<Call("get", "ForeignCluster", NoErr)>>
    /\ ~HasError(resp.diags)
    /\ \E o \in fcs : /\ o.Name = ValueString(resp.req.model.ClusterName)
                      /\ o.Spec.PeeringType = PeeringTypeInBand
                      /\ o.Spec.OutgoingPeeringEnabled = PeeringEnabledYes
    /\ secrets # {}

\* a Delete switched the outgoing peering of an OutOfBand ForeignCluster off
C21_WitnessSwitched ==
    /\ Handled("peer", "Delete")
    /\ resp.calls = <<Call("get", "ForeignCluster", NoErr),
                      Call("update", "ForeignCluster", NoErr)>>
    /\ \E o \in fcs : /\ o.Name = ValueString(resp.req.model.ClusterName)
                      /\ o.Spec.OutgoingPeeringEnabled = PeeringEnabledNo

\* C22: every Update call, of whichever resource, answers with exactly the
\* 'Update is not supported/permitted yet.' error diagnostic, makes no API call
\* and runs no liqoctl command, and leaves the cluster and the Terraform state
\* as they were.
C22_UpdateUnsupported ==
    [][(nOps' = nOps + 1 /\ resp'.op = "Update") =>
          /\ resp'.resource \in {"peer", "offload", "generate"}
          /\ ~resp'.crashed
          /\ resp'.diags = <<UpdateDiag>>
          /\ resp'.calls = <<>>
          /\ <<remoteArgs, localArgs, nQueries>>' = <<remoteArgs, localArgs, nQueries>>
          /\ <<fcs, secrets, nsoffs>>' = <<fcs, secrets, nsoffs>>
          /\ tfstate' = tfstate]_vars

\* an offload Update was refused while the resource was in the state and its
\* object in the cluster
C22_Witness ==
    /\ resp.resource = "offload" /\ resp.op = "Update"
    /\ resp.diags = <<UpdateDiag>>
    /\ ~tfstate.offload.isNull
    /\ OffloadingsIn(nsoffs, ValueString(tfstate.offload.model.Namespace)) # {}

\* C23: a Read makes no API call, leaves the cluster alone and hands back the
\* state it was given, the resource still in it; and as long as no Delete runs,
\* a state that a Create has written stays as it is through Reads and through
\* deletions of the cluster's objects by others.
C23_ReadIdentity ==
    /\ [][(nOps' = nOps + 1 /\ resp'.op = "Read") =>
            /\ ~resp'.crashed
            /\ resp'.calls = <<>>
            /\ <<fcs, secrets, nsoffs>>' = <<fcs, secrets, nsoffs>>
            /\ tfstate' = tfstate
            /\ ~tfstate'[resp'.resource].isNull]_vars
    /\ [][\A r \in {"peer", "offload", "generate"} :
            ~tfstate[r].isNull => tfstate'[r] = tfstate[r]]_vars

\* an offload Read kept the resource in the state after its
\* NamespaceOffloading had been deleted by someone else
C23_Witness ==
    /\ resp.resource = "offload" /\ resp.op = "Read"
    /\ ~HasError(resp.diags)
    /\ ~tfstate.offload.isNull
    /\ OffloadingsIn(nsoffs, ValueString(tfstate.offload.model.Namespace)) = {}

\* C24: a Create that ends with an error diagnostic has left the cluster's
\* objects as they were and has written no state.
C24_CreateAllOrNothing ==
    [][(nOps' = nOps + 1 /\ resp'.op = "Create" /\ ~resp'.crashed /\ HasError(resp'.diags)) =>
          /\ <<fcs, secrets, nsoffs>>' = <<fcs, secrets, nsoffs>>
          /\ tfstate'[resp'.resource].isNull]_vars

----------------------------------------------------------------------------
(* Properties of the DefaultValue plan modifiers *)

\* the planned value the rule gives: the default exactly when the
\* configuration value is null and the incoming planned value is unknown or null
DefaultValueRule(DefaultValue, configValue, planValue) ==
    IF IsNull(configValue) /\ (IsUnknown(planValue) \/ IsNull(planValue))
    THEN DefaultValue
    ELSE planValue

\* C15: each application of a DefaultValue modifier (string, bool, list, map
\* or legacy) makes the planned value the default when the configuration value
\* is null and the incoming planned value is unknown or null, and leaves the
\* planned value unchanged in every other case, so a configured value is never
\* replaced; a second application gives the same planned value as the first.
C15_DefaultValueRule ==
    /\ \A i \in 2..Len(attrPlans) :
         attrPlans[i] = DefaultValueRule(modifier.DefaultValue, attrConfig, attrPlans[i - 1])
    /\ \A i \in 3..Len(attrPlans) : attrPlans[i] = attrPlans[2]

\* a list modifier replaced an unknown planned value by a non-null default and
\* was applied a second time
C15_Witness ==
    /\ modifier.kind = "list"
    /\ Len(attrPlans) = 3
    /\ IsNull(attrConfig)
    /\ IsUnknown(attrPlans[1])
    /\ ~IsNull(modifier.DefaultValue)
    /\ attrPlans[3] = modifier.DefaultValue

====
